---- MODULE Spec2Model ----
(***************************************************************************)
(* A model of gzhynko/procedural-railroads: the terrain chunk streamer     *)
(* (src/src/world/terrain.rs and its predecessor                           *)
(* src/src/terrain_generator.rs), the greedy route generator               *)
(* (src/src/world/route_gen.rs), the track lookup table                    *)
(* (src/src/world/train_tracks.rs) and the bogie physics                   *)
(* (src/src/rolling_stock).                                                *)
(*                                                                         *)
(* Every Bevy system is one action.  Systems of one schedule that the      *)
(* plugin leaves unordered interleave freely; a system's deferred commands *)
(* are applied with the system itself.  Floating-point quantities are      *)
(* fixed-point integers; the places where the code truncates or floors     *)
(* are kept.                                                               *)
(***************************************************************************)
EXTENDS Integers, Sequences, FiniteSets, TLC

VARIABLES
    \* ---- chunk streamer ------------------------------------------------
    variant,                \* "far": world/terrain.rs, "legacy": terrain_generator.rs
    player_pos,             \* Player Transform translation (x, z), world units
    id_counter,             \* Terrain.id_counter
    loaded_chunks,          \* Terrain.loaded_chunks: id -> FarChunkData     (far)
    loaded_chunks_pos,      \* Terrain.loaded_chunks_pos: id -> chunk coord  (legacy)
    loaded_chunks_meshes,   \* keys of Terrain.loaded_chunks_meshes          (legacy)
    tasks,                  \* entities holding a GenerateChunkMeshTask
    chunks,                 \* entities holding a (Far|Near)GridTerrainChunk / TerrainChunk
    meshes,                 \* Assets<Mesh>: the mesh handles that are alive
    terrain_panicked,       \* an unwrap() of the streamer failed
    settings_changes,       \* runs of ui() that changed a noise setting (bounded)
    \* ---- mesh builder of a generation job ------------------------------
    mesh_args,              \* the call: function, mesh_width, mesh_height, subdivision
    vertices,               \* the vertex positions (x, z) returned, <<>> before the call
    indices,                \* the triangle indices returned, <<>> before the call
    mesh_built,             \* the call has returned
    \* ---- route generator ----------------------------------------------
    noise_settings,         \* NoiseSettings: which height field the noise yields
    points,                 \* Route.points: id -> point (x, y, z), centimetres
    route_id_counter,       \* Route.id_counter
    points_changed,         \* Route.points_changed
    route_nodes,            \* RouteNode entities: the point count of each line strip
    line_meshes,            \* LineStrip meshes added to Assets<Mesh>
    \* ---- track and rolling stock --------------------------------------
    segments,               \* PlacementData.segments
    last_used_node_id,      \* PlacementData.last_used_node_id
    track_segments,         \* Track.segments: id -> segment
    last_placed_segment_id, \* PlacementData.last_placed_segment_id
    track_shape,            \* PlacementData.track_shape is Some
    track_material,         \* PlacementData.track_material is Some
    track_meshes,           \* segment ids of the track meshes spawned, in order
    position_on_track,      \* Bogie.position_on_track, 1/1000 of a segment
    velocity,               \* BogiePhysics.velocity, mm/s
    horizontal_force,       \* BogiePhysics.horizontal_force, N
    vertical_force,         \* BogiePhysics.vertical_force, N
    kinetic_force,          \* BogiePhysics.kinetic_force, N
    static_force,           \* BogiePhysics.static_force, N
    current_slope_angle,    \* BogiePhysics.current_slope_angle
    translation,            \* the bogie's Transform.translation, mm along the track
    tractive_force,         \* WagonPhysics.tractive_force, N
    braking_force,          \* WagonPhysics.braking_force, N
    wagon_velocity,         \* WagonPhysics.velocity, mm/s
    wagon_translation,      \* the wagon's Transform.translation, mm along the track
    schedule,               \* the schedule the frame is in: "FixedUpdate" or "Update"
    fixed_pc,               \* systems of the FixedUpdate chain run in this fixed tick
    fixed_steps,            \* fixed ticks run in this frame
    ran,                    \* systems of Update run in this frame
    frames,                 \* frames completed (bounded)
    ui_changes,             \* slider changes made so far (bounded)
    train_panicked,         \* an assert! or unwrap() of the train systems failed
    \* history variables, written when a fixed tick starts
    stationary_gated,       \* the bogie had velocity 0 and a force within stiction
    tick_start_error,       \* the rod's distance error, mm
    \* ---- the wagon's bogie entities
    attached_bogies         \* the bogies carrying AttachedToWagon(wagon)

terrain_vars == <<variant, player_pos, id_counter, loaded_chunks, loaded_chunks_pos,
                  loaded_chunks_meshes, tasks, chunks, meshes, terrain_panicked,
                  settings_changes>>

mesh_vars == <<mesh_args, vertices, indices, mesh_built>>

route_vars == <<noise_settings, points, route_id_counter, points_changed,
                route_nodes, line_meshes>>

\* What place_tracks reads and writes besides the segments.
placed_vars == <<last_placed_segment_id, track_shape, track_material, track_meshes>>

placement_vars == <<segments, last_used_node_id, track_segments, placed_vars>>

bogie_vars == <<position_on_track, velocity, horizontal_force, vertical_force,
                kinetic_force, static_force, current_slope_angle, translation>>

wagon_vars == <<tractive_force, braking_force, wagon_velocity, wagon_translation>>

schedule_vars == <<schedule, fixed_pc, fixed_steps, ran, frames>>

train_vars == <<placement_vars, bogie_vars, wagon_vars, schedule_vars, ui_changes,
                train_panicked, stationary_gated, tick_start_error, attached_bogies>>

\* What the chunk streamer's systems never write.
outside_terrain == <<mesh_vars, route_vars, train_vars>>

\* What the route generator's systems never write.
outside_route == <<id_counter, loaded_chunks, loaded_chunks_pos, loaded_chunks_meshes,
                   tasks, chunks, meshes, terrain_panicked, settings_changes, mesh_vars,
                   train_vars>>

\* What the track and train systems never write.
outside_train == <<terrain_vars, mesh_vars, route_vars, attached_bogies>>

vars == <<terrain_vars, mesh_vars, route_vars, train_vars>>

----------------------------------------------------------------------------
(* Bounds of the model                                                     *)

\* The viewpoint moves along x in half-chunk steps, at most this many from the
\* origin.
MaxPlayerSteps == 1
\* Jobs that one poll of spawn_generated_chunks finds finished.
MaxFinishedPerPoll == 1
\* generate_far_terrain / generate_terrain dispatch only while the id counter
\* is below this.
MaxChunkIds == 6
\* Runs of ui that change a noise setting.
MaxSettingsChanges == 1
\* build_route_path appends only while the route has fewer points than this.
MaxRoutePoints == 6
\* Frames the train runs for.
MaxFrames == 2
\* Fixed ticks RunFixedUpdateLoop runs in one frame, at most.
MaxFixedSteps == 2
\* Times the user moves a slider of the tracked wagon window.
MaxUiChanges == 1
\* Chunks the viewpoint walks away from the origin along x, at most.
MaxWalkedChunks == 2
\* The mesh builders are called with mesh_width and mesh_height up to this.
MaxMeshSide == 5
\* ... and with a vertex_subdivision up to this.
MaxSubdivision == 2

----------------------------------------------------------------------------
(* Program constants                                                       *)

FAR_GRID_CHUNK_SIZE == 1000
TERRAIN_CHUNK_SIZE == 256

\* The load radius in chunks and the near-grid chunks per side of a far chunk.
\* The source sets 5 and 10; the model checks the same code with a radius of 1
\* (a window of 2 x 2 chunks inside a kept square of 3 x 3) and 2 x 2 near
\* chunks, which keeps the set of jobs in flight small.
FAR_GRID_RENDER_DISTANCE == 1
RENDER_DISTANCE_CHUNKS == 1
num_near_chunks == 2

ChunkSize == IF variant = "far" THEN FAR_GRID_CHUNK_SIZE ELSE TERRAIN_CHUNK_SIZE

----------------------------------------------------------------------------
(* Chunk streamer: helpers                                                 *)

\* ((p + SIZE / 2.) / SIZE).floor() as i32, per axis
ChunkCoordOf(p, size) ==
    <<(p[1] + size \div 2) \div size, (p[2] + size \div 2) \div size>>

\* get_far_chunk_position
get_far_chunk_position(world_position) ==
    ChunkCoordOf(world_position, FAR_GRID_CHUNK_SIZE)

player_chunk == ChunkCoordOf(player_pos, ChunkSize)

\* (chunk * SIZE) - Vec2::splat(SIZE / 2.)
ChunkWorldPosition(chunk, size) ==
    <<chunk[1] * size - size \div 2, chunk[2] * size - size \div 2>>

\* A generation window that starts one chunk late on both axes.
GenerationOrderStartsLate(pc, r) ==
    [i \in 1..((2 * r) * (2 * r)) |->
        <<pc[1] - r + 1 + ((i - 1) \div (2 * r)), pc[2] - r + 1 + ((i - 1) % (2 * r))>>]

\* A generation window whose ranges include their upper end.
GenerationOrderInclusive(pc, r) ==
    [i \in 1..((2 * r + 1) * (2 * r + 1)) |->
        <<pc[1] - r + ((i - 1) \div (2 * r + 1)), pc[2] - r + ((i - 1) % (2 * r + 1))>>]

\* The nested loops `for x in (pc.x - R)..(pc.x + R) { for y in (pc.y - R)..(pc.y + R)`
\* in iteration order: both ranges exclude their upper end.
GenerationOrder(pc, r) ==
    [i \in 1..((2 * r) * (2 * r)) |->
        <<pc[1] - r + ((i - 1) \div (2 * r)), pc[2] - r + ((i - 1) % (2 * r))>>]

\* The eviction test of remove_unused_terrain: pos is outside [pc - R, pc + R].
OutsideRenderDistance(pos, pc, r) ==
    \/ pos[1] < pc[1] - r
    \/ pos[1] > pc[1] + r
    \/ pos[2] < pc[2] - r
    \/ pos[2] > pc[2] + r

TrackedPositions ==
    IF variant = "far"
    THEN {loaded_chunks[i].pos : i \in DOMAIN loaded_chunks}
    ELSE {loaded_chunks_pos[i] : i \in DOMAIN loaded_chunks_pos}

\* The coordinates generate_* finds not loaded, in loop order.
NotLoaded(pc, r) ==
    SelectSeq(GenerationOrder(pc, r), LAMBDA c : c \notin TrackedPositions)

SeqRange(s) == {s[i] : i \in 1..Len(s)}

FarChunkData(pos) ==
    [pos |-> pos, mesh_handle |-> FALSE, near_mesh_handles |-> 0,
     flagged |-> FALSE, generating_near_chunks |-> FALSE]

Task(id, type, position) == [id |-> id, type |-> type, pos |-> position]

\* f with the keys of ks removed
Without(f, ks) == [k \in DOMAIN f \ ks |-> f[k]]

\* f extended by g
Extend(f, g) == [k \in DOMAIN f \cup DOMAIN g |-> IF k \in DOMAIN g THEN g[k] ELSE f[k]]

----------------------------------------------------------------------------
(* Mesh builder: mesh_data_from_noise, mesh_data_from_perlin               *)

\* No mesh builder is being looked at.
NoMeshCall == [fn |-> "none", mesh_width |-> 0, mesh_height |-> 0,
               vertex_subdivision |-> 0]

\* The calls the mesh builders are checked for.  mesh_data_from_perlin has no
\* subdivision.
MeshCalls ==
    [fn : {"noise"}, mesh_width : 1..MaxMeshSide, mesh_height : 1..MaxMeshSide,
     vertex_subdivision : 1..MaxSubdivision]
    \cup [fn : {"perlin"}, mesh_width : 1..MaxMeshSide, mesh_height : 1..MaxMeshSide,
          vertex_subdivision : {1}]

\* The loops `for z in 0..vertex_count_z { for x in 0..vertex_count_x`: the
\* position pushed for the vertex with index vertex_index.
grid_position(vertex_index, vertex_count_x, vertex_subdivision) ==
    <<(vertex_index % vertex_count_x) * vertex_subdivision,
      (vertex_index \div vertex_count_x) * vertex_subdivision>>

\* A condition that holds for every vertex.
has_quad_everywhere(x, z, vertex_count_x, vertex_count_z) == TRUE

\* `if x < vertex_count_x - 1 && z < vertex_count_z - 1`
has_quad(x, z, vertex_count_x, vertex_count_z) ==
    x < vertex_count_x - 1 /\ z < vertex_count_z - 1

\* A quad whose first triangle names one of its vertices twice.
quad_indices_folded(vertex_index, vertex_count_x) ==
    <<vertex_index, vertex_index + vertex_count_x, vertex_index + vertex_count_x,
      vertex_index + vertex_count_x + 1, vertex_index, vertex_index + 1>>

\* The six indices pushed for the quad at vertex_index.
quad_indices(vertex_index, vertex_count_x) ==
    <<vertex_index, vertex_index + vertex_count_x + 1, vertex_index + vertex_count_x,
      vertex_index + vertex_count_x + 1, vertex_index, vertex_index + 1>>

\* The index list after the loops have run from vertex_index to the end.
RECURSIVE IndicesFrom(_, _, _, _)
IndicesFrom(vertex_index, vertex_count_x, vertex_count_z, pushed) ==
    IF vertex_index >= vertex_count_x * vertex_count_z THEN pushed
    ELSE LET x == vertex_index % vertex_count_x
             z == vertex_index \div vertex_count_x
         IN IndicesFrom(vertex_index + 1, vertex_count_x, vertex_count_z,
                        IF has_quad(x, z, vertex_count_x, vertex_count_z)
                        THEN pushed \o quad_indices(vertex_index, vertex_count_x)
                        ELSE pushed)

\* Vec::reverse
Reverse(list) == [i \in 1..Len(list) |-> list[Len(list) + 1 - i]]

\* The grid of vertex_count_x by vertex_count_z samples, both lists reversed.
grid_mesh(vertex_count_x, vertex_count_z, vertex_subdivision) ==
    [vertices |-> Reverse([i \in 1..(vertex_count_x * vertex_count_z) |->
                              grid_position(i - 1, vertex_count_x, vertex_subdivision)]),
     indices |-> Reverse(IndicesFrom(0, vertex_count_x, vertex_count_z, <<>>))]

\* mesh_data_from_noise of world/terrain.rs
mesh_data_from_noise(mesh_width, mesh_height, vertex_subdivision) ==
    LET vertex_count_x == mesh_width \div vertex_subdivision + 2
        vertex_count_z == mesh_height \div vertex_subdivision + 2
    IN grid_mesh(vertex_count_x, vertex_count_z, vertex_subdivision)

\* mesh_data_from_perlin of terrain_generator.rs
mesh_data_from_perlin(mesh_width, mesh_height) ==
    grid_mesh(mesh_width, mesh_height, 1)

----------------------------------------------------------------------------
(* Chunk streamer: initial state                                           *)

InitChunks ==
    /\ variant \in {"far", "legacy"}
    /\ player_pos = <<0, 0>>
    /\ id_counter = 0
    /\ loaded_chunks = <<>>
    /\ loaded_chunks_pos = <<>>
    /\ loaded_chunks_meshes = {}
    /\ tasks = {}
    /\ chunks = {}
    /\ meshes = {}
    /\ terrain_panicked = FALSE
    /\ settings_changes = 0

\* The streamer before its first frame; its jobs' meshes are not looked into.
InitTerrain ==
    /\ InitChunks
    /\ mesh_args = NoMeshCall
    /\ vertices = <<>>
    /\ indices = <<>>
    /\ mesh_built = FALSE

----------------------------------------------------------------------------
(* Chunk streamer: the viewpoint (an external collaborator)                *)

MovePlayer ==
    /\ ~terrain_panicked
    /\ \E d \in {-1, 1} :
        LET step == ChunkSize \div 2
            np == [player_pos EXCEPT ![1] = @ + d * step]
        IN /\ np[1] >= -(MaxPlayerSteps * step)
           /\ np[1] <= MaxPlayerSteps * step
           /\ player_pos' = np
    /\ UNCHANGED outside_terrain
    /\ UNCHANGED <<variant, id_counter, loaded_chunks, loaded_chunks_pos,
                   loaded_chunks_meshes, tasks, chunks, meshes, terrain_panicked,
                   settings_changes>>

\* The viewpoint walks one far chunk further along x.
walk_away ==
    /\ ~terrain_panicked
    /\ variant = "far"
    /\ player_pos[1] + FAR_GRID_CHUNK_SIZE <= MaxWalkedChunks * FAR_GRID_CHUNK_SIZE
    /\ player_pos' = [player_pos EXCEPT ![1] = @ + FAR_GRID_CHUNK_SIZE]
    /\ UNCHANGED outside_terrain
    /\ UNCHANGED <<variant, id_counter, loaded_chunks, loaded_chunks_pos,
                   loaded_chunks_meshes, tasks, chunks, meshes, terrain_panicked,
                   settings_changes>>

----------------------------------------------------------------------------
(* Chunk streamer: world/terrain.rs                                        *)

\* An id counter that is read but never advanced between two chunks.
NewChunkIdsStuck(n) == [i \in 1..n |-> id_counter]

\* Terrain::get_new_chunk_id, called n times: the counter's value, then + 1.
NewChunkIds(n) == [i \in 1..n |-> id_counter + i - 1]

\* generate_far_terrain
generate_far_terrain ==
    /\ variant = "far"
    /\ ~terrain_panicked
    /\ LET pc == get_far_chunk_position(player_pos)
           new == NotLoaded(pc, FAR_GRID_RENDER_DISTANCE)
           ids == NewChunkIds(Len(new))
       IN /\ Len(new) > 0 => id_counter < MaxChunkIds
          /\ id_counter' = id_counter + Len(new)
          /\ tasks' = tasks \cup
                {Task(ids[i], "FarGrid", ChunkWorldPosition(new[i], FAR_GRID_CHUNK_SIZE)) :
                    i \in 1..Len(new)}
          /\ loaded_chunks' =
                Extend(loaded_chunks,
                       [id \in SeqRange(ids) |->
                           FarChunkData(new[CHOOSE i \in 1..Len(new) : ids[i] = id])])
    /\ UNCHANGED outside_terrain
    /\ UNCHANGED <<variant, player_pos, loaded_chunks_pos, loaded_chunks_meshes,
                   chunks, meshes, terrain_panicked, settings_changes>>

\* The far chunks generate_near_terrain starts the near grid for.
FlaggedChunks == {id \in DOMAIN loaded_chunks : loaded_chunks[id].flagged}

\* generate_near_terrain
generate_near_terrain ==
    /\ variant = "far"
    /\ ~terrain_panicked
    /\ LET near_chunk_size == FAR_GRID_CHUNK_SIZE \div num_near_chunks
           NearTasks(id) ==
               LET far_chunk_pos ==
                       ChunkWorldPosition(loaded_chunks[id].pos, FAR_GRID_CHUNK_SIZE)
               IN {Task(id, "NearGrid",
                        <<far_chunk_pos[1] + x * near_chunk_size,
                          far_chunk_pos[2] + y * near_chunk_size>>) :
                      x \in 0..(num_near_chunks - 1), y \in 0..(num_near_chunks - 1)}
       IN /\ loaded_chunks' =
                [id \in DOMAIN loaded_chunks |->
                    IF id \in FlaggedChunks
                    THEN [loaded_chunks[id] EXCEPT !.flagged = FALSE,
                                                   !.generating_near_chunks = TRUE]
                    ELSE loaded_chunks[id]]
          /\ tasks' = tasks \cup UNION {NearTasks(id) : id \in FlaggedChunks}
    /\ UNCHANGED outside_terrain
    /\ UNCHANGED <<variant, player_pos, id_counter, loaded_chunks_pos,
                   loaded_chunks_meshes, chunks, meshes, terrain_panicked,
                   settings_changes>>

\* A flagging step that does not look at the near meshes the chunk has.
FlagOriginChunkAgain(lc) ==
    [id \in DOMAIN lc |->
        IF /\ lc[id].pos = <<0, 0>>
           /\ ~lc[id].flagged
           /\ ~lc[id].generating_near_chunks
        THEN [lc[id] EXCEPT !.flagged = TRUE]
        ELSE lc[id]]

\* The first step of spawn_generated_chunks: the chunk at (0, 0) is flagged for
\* its near grid.  `find` takes one chunk at that position; there is at most one.
FlagOriginChunk(lc) ==
    [id \in DOMAIN lc |->
        IF /\ lc[id].pos = <<0, 0>>
           /\ lc[id].near_mesh_handles = 0
           /\ ~lc[id].flagged
           /\ ~lc[id].generating_near_chunks
        THEN [lc[id] EXCEPT !.flagged = TRUE]
        ELSE lc[id]]

\* The chunk data with the result of every task taken, finished or not.
IntegrateFarEveryTask(lc, done) ==
    [id \in DOMAIN lc |->
        LET far == {t \in tasks : t.id = id /\ t.type = "FarGrid"}
            near == {t \in tasks : t.id = id /\ t.type = "NearGrid"}
        IN [lc[id] EXCEPT
               !.mesh_handle = @ \/ far # {},
               !.generating_near_chunks = IF near # {} THEN FALSE ELSE @,
               !.near_mesh_handles = @ + Cardinality(near)]]

\* The chunk data after the results `done` were integrated.
IntegrateFar(lc, done) ==
    [id \in DOMAIN lc |->
        LET far == {t \in done : t.id = id /\ t.type = "FarGrid"}
            near == {t \in done : t.id = id /\ t.type = "NearGrid"}
        IN [lc[id] EXCEPT
               !.mesh_handle = @ \/ far # {},
               !.generating_near_chunks = IF near # {} THEN FALSE ELSE @,
               !.near_mesh_handles = @ + Cardinality(near)]]

\* spawn_generated_chunks of world/terrain.rs; `done` are the tasks poll_once
\* finds finished.
spawn_generated_chunks_far(done) ==
    /\ variant = "far"
    /\ ~terrain_panicked
    /\ loaded_chunks' = IntegrateFar(FlagOriginChunk(loaded_chunks), done)
    /\ meshes' = meshes \cup done
    /\ tasks' = tasks \ done
    /\ chunks' = chunks \cup done
    /\ UNCHANGED outside_terrain
    /\ UNCHANGED <<variant, player_pos, id_counter, loaded_chunks_pos,
                   loaded_chunks_meshes, terrain_panicked, settings_changes>>

\* The far chunk entities remove_unused_terrain of world/terrain.rs evicts.
EvictedFar ==
    {c \in chunks : /\ c.type = "FarGrid"
                    /\ c.id \in DOMAIN loaded_chunks
                    /\ OutsideRenderDistance(loaded_chunks[c.id].pos,
                                             ChunkCoordOf(player_pos, FAR_GRID_CHUNK_SIZE),
                                             FAR_GRID_RENDER_DISTANCE)}

\* remove_unused_terrain of world/terrain.rs
remove_unused_terrain_far ==
    /\ variant = "far"
    /\ ~terrain_panicked
    /\ IF \E c \in chunks : c.type = "FarGrid" /\ c.id \notin DOMAIN loaded_chunks
       THEN \* loaded_chunks.get(&chunk.0).unwrap()
            /\ terrain_panicked' = TRUE
            /\ UNCHANGED <<loaded_chunks, chunks, meshes>>
       ELSE /\ chunks' = chunks \ EvictedFar
            /\ meshes' = meshes \ EvictedFar
            /\ loaded_chunks' = Without(loaded_chunks, {c.id : c \in EvictedFar})
            /\ UNCHANGED terrain_panicked
    /\ UNCHANGED outside_terrain
    /\ UNCHANGED <<variant, player_pos, id_counter, loaded_chunks_pos,
                   loaded_chunks_meshes, tasks, settings_changes>>

----------------------------------------------------------------------------
(* Chunk streamer: terrain_generator.rs and main.rs                        *)

\* generate_terrain
generate_terrain ==
    /\ variant = "legacy"
    /\ LET pc == ChunkCoordOf(player_pos, TERRAIN_CHUNK_SIZE)
           new == NotLoaded(pc, RENDER_DISTANCE_CHUNKS)
           \* current_id = id_counter, then id_counter += 1, per dispatched chunk
           ids == NewChunkIds(Len(new))
       IN /\ Len(new) > 0 => id_counter < MaxChunkIds
          /\ id_counter' = id_counter + Len(new)
          /\ tasks' = tasks \cup
                {Task(ids[i], "Terrain", ChunkWorldPosition(new[i], TERRAIN_CHUNK_SIZE)) :
                    i \in 1..Len(new)}
          /\ loaded_chunks_pos' =
                Extend(loaded_chunks_pos,
                       [id \in SeqRange(ids) |->
                           new[CHOOSE i \in 1..Len(new) : ids[i] = id]])
    /\ UNCHANGED outside_terrain
    /\ UNCHANGED <<variant, player_pos, loaded_chunks, loaded_chunks_meshes,
                   chunks, meshes, terrain_panicked, settings_changes>>

\* spawn_generated_chunks of terrain_generator.rs
spawn_generated_chunks_legacy(done) ==
    /\ variant = "legacy"
    /\ meshes' = meshes \cup done
    /\ chunks' = chunks \cup done
    /\ tasks' = tasks \ done
    /\ loaded_chunks_meshes' = loaded_chunks_meshes \cup {t.id : t \in done}
    /\ UNCHANGED outside_terrain
    /\ UNCHANGED <<variant, player_pos, id_counter, loaded_chunks, loaded_chunks_pos,
                   terrain_panicked, settings_changes>>

\* `retain` of remove_unused_terrain: the ids that stay tracked.
Retained ==
    {id \in DOMAIN loaded_chunks_pos :
        ~OutsideRenderDistance(loaded_chunks_pos[id],
                               ChunkCoordOf(player_pos, TERRAIN_CHUNK_SIZE),
                               RENDER_DISTANCE_CHUNKS)}

\* The chunk entities remove_unused_terrain of terrain_generator.rs despawns: the
\* chunk coordinate is read back from the entity's Transform.
EvictedLegacy ==
    {c \in chunks :
        ChunkCoordOf(c.pos, TERRAIN_CHUNK_SIZE) \notin
            {loaded_chunks_pos[id] : id \in Retained}}

\* remove_unused_terrain of terrain_generator.rs
remove_unused_terrain_legacy ==
    /\ variant = "legacy"
    /\ loaded_chunks_pos' = [id \in Retained |-> loaded_chunks_pos[id]]
    /\ chunks' = chunks \ EvictedLegacy
    /\ meshes' = {m \in meshes :
                    m.id \notin {c.id : c \in EvictedLegacy} \cap loaded_chunks_meshes}
    /\ loaded_chunks_meshes' = loaded_chunks_meshes \ {c.id : c \in EvictedLegacy}
    /\ UNCHANGED outside_terrain
    /\ UNCHANGED <<variant, player_pos, id_counter, loaded_chunks, tasks,
                   terrain_panicked, settings_changes>>

\* ui of main.rs, when a slider changed: terrain_res.loaded_chunks_pos.clear()
ui_settings_changed ==
    /\ variant = "legacy"
    /\ settings_changes < MaxSettingsChanges
    /\ settings_changes' = settings_changes + 1
    /\ loaded_chunks_pos' = <<>>
    /\ UNCHANGED outside_terrain
    /\ UNCHANGED <<variant, player_pos, id_counter, loaded_chunks,
                   loaded_chunks_meshes, tasks, chunks, meshes, terrain_panicked>>

----------------------------------------------------------------------------
(* Route generator: world/route_gen.rs                                     *)
(* Lengths are centimetres, angles whole degrees.                          *)

NODE_LENGTH == 9000
MAX_TURN_ANGLE == 10

\* 10^4 * cos of 0..90 degrees.
CosTable ==
    <<10000, 9998, 9994, 9986, 9976, 9962, 9945, 9925, 9903, 9877,
      9848, 9816, 9781, 9744, 9703, 9659, 9613, 9563, 9511, 9455,
      9397, 9336, 9272, 9205, 9135, 9063, 8988, 8910, 8829, 8746,
      8660, 8572, 8480, 8387, 8290, 8192, 8090, 7986, 7880, 7771,
      7660, 7547, 7431, 7314, 7193, 7071, 6947, 6820, 6691, 6561,
      6428, 6293, 6157, 6018, 5878, 5736, 5592, 5446, 5299, 5150,
      5000, 4848, 4695, 4540, 4384, 4226, 4067, 3907, 3746, 3584,
      3420, 3256, 3090, 2924, 2756, 2588, 2419, 2250, 2079, 1908,
      1736, 1564, 1392, 1219, 1045, 872, 698, 523, 349, 175, 0>>

Abs(n) == IF n < 0 THEN -n ELSE n

\* f32::cos of an angle in degrees, times 10^4.
Cos(angle_deg) ==
    LET a == angle_deg % 360
    IN IF a <= 90 THEN CosTable[a + 1]
       ELSE IF a <= 180 THEN -CosTable[180 - a + 1]
       ELSE IF a <= 270 THEN -CosTable[a - 180 + 1]
       ELSE CosTable[360 - a + 1]

\* f32::sin of an angle in degrees, times 10^4.
Sin(angle_deg) == Cos(angle_deg - 90)

\* NODE_LENGTH * c for a cosine or sine c in 10^-4, rounded to the centimetre.
Scaled(c) ==
    IF c >= 0 THEN ((NODE_LENGTH \div 100) * c + 50) \div 100
    ELSE -(((NODE_LENGTH \div 100) * (-c) + 50) \div 100)

RECURSIVE SqrtBetween(_, _, _)
\* The largest r in low..high with r * r <= n.
SqrtBetween(n, low, high) ==
    IF low >= high THEN low
    ELSE LET middle == (low + high + 1) \div 2
         IN IF middle * middle <= n
            THEN SqrtBetween(n, middle, high)
            ELSE SqrtBetween(n, low, middle - 1)

\* f32::sqrt, to the centimetre below.
Sqrt(n) == SqrtBetween(n, 0, 2 * NODE_LENGTH)

\* `(route_vector.dot(world_vector) / route_vector.length()).acos().to_degrees()
\* as i32`: the angle in 0..180 between the vector (dx, dz) and the x axis.
\* acos does not see the sign of dz.
AcosDegrees(dx, dz) ==
    LET length == Sqrt(dx * dx + dz * dz)
        cosine == (dx * 10000) \div length
    IN CHOOSE d \in 0..180 :
          \A e \in 0..180 : Abs(Cos(d) - cosine) <= Abs(Cos(e) - cosine)

\* noise::get_heightmap_function: the elevation at (x, z) under the current
\* noise settings.  The settings select one of three height fields: level
\* ground, ground that rises 1 in 90 along x, ground that falls 1 in 90
\* along z.
HeightFields == {"level", "rises_along_x", "falls_along_z"}

noise_fn(x, z) ==
    CASE noise_settings = "level" -> 0
      [] noise_settings = "rises_along_x" -> x \div 90
      [] noise_settings = "falls_along_z" -> (-z) \div 90

\* calc_absolute_slope, in 10^-5.
calc_absolute_slope(dist, height1, height2) == (Abs(height2 - height1) * 100000) \div dist

\* The candidate of find_next_path_node at bearing angle_deg.
Candidate(starting_point, angle_deg) ==
    LET x == Scaled(Cos(angle_deg)) + starting_point.x
        z == Scaled(Sin(angle_deg)) + starting_point.z
        height_here == noise_fn(x, z)
    IN [slope |-> calc_absolute_slope(NODE_LENGTH, starting_point.y, height_here),
        point |-> [x |-> x, y |-> height_here + 100, z |-> z]]

\* The bearings find_next_path_node scans, in scan order.
ScanAngles(starting_absolute_angle_deg, max_angle_deg, angle_step_deg) ==
    [i \in 1..((2 * max_angle_deg) \div angle_step_deg + 1) |->
        starting_absolute_angle_deg - max_angle_deg + (i - 1) * angle_step_deg]

RECURSIVE ScanFromLastWins(_, _, _, _, _)
\* A loop that replaces its result on an equal slope too.
ScanFromLastWins(starting_point, angles, i, current_min_slope, result) ==
    IF i > Len(angles) THEN result
    ELSE LET c == Candidate(starting_point, angles[i])
         IN IF c.slope <= current_min_slope
            THEN ScanFromLastWins(starting_point, angles, i + 1, c.slope, c.point)
            ELSE ScanFromLastWins(starting_point, angles, i + 1, current_min_slope, result)

RECURSIVE ScanFrom(_, _, _, _, _)
\* The loop of find_next_path_node from the i-th bearing on.
ScanFrom(starting_point, angles, i, current_min_slope, result) ==
    IF i > Len(angles) THEN result
    ELSE LET c == Candidate(starting_point, angles[i])
         IN IF c.slope < current_min_slope
            THEN ScanFrom(starting_point, angles, i + 1, c.slope, c.point)
            ELSE ScanFrom(starting_point, angles, i + 1, current_min_slope, result)

Vec3ZERO == [x |-> 0, y |-> 0, z |-> 0]

\* A scan whose smallest slope so far starts at 0: no candidate is below it.
find_next_path_node_from_zero(starting_point, starting_absolute_angle_deg, max_angle_deg, angle_step_deg) ==
    ScanFrom(starting_point,
             ScanAngles(starting_absolute_angle_deg, max_angle_deg, angle_step_deg),
             1, 0, Vec3ZERO)

find_next_path_node(starting_point, starting_absolute_angle_deg, max_angle_deg, angle_step_deg) ==
    ScanFrom(starting_point,
             ScanAngles(starting_absolute_angle_deg, max_angle_deg, angle_step_deg),
             1, 1000 * 100000, Vec3ZERO)

\* A range test that lets every position pass.
is_within_any_distance(pos, render_distance_chunks, player_chunk_pos, chunk_size) == TRUE

is_within_render_distance(pos, render_distance_chunks, player_chunk_pos, chunk_size) ==
    LET min_x == (player_chunk_pos[1] - render_distance_chunks) * chunk_size
        max_x == (player_chunk_pos[1] + render_distance_chunks) * chunk_size
        min_y == (player_chunk_pos[2] - render_distance_chunks) * chunk_size
        max_y == (player_chunk_pos[2] + render_distance_chunks) * chunk_size
    IN ~(pos[1] > max_x \/ pos[1] < min_x) /\ ~(pos[2] > max_y \/ pos[2] < min_y)

\* Route::default; nothing is drawn yet.
InitRouteDefault ==
    /\ points = <<>>
    /\ route_id_counter = 0
    /\ points_changed = FALSE
    /\ route_nodes = <<>>
    /\ line_meshes = 0

\* A seed of the starting point alone.
SeedStartingPointOnly ==
    0 :> [x |-> 0, y |-> noise_fn(0, 0) + 100, z |-> 0]

\* The two points init_line_points seeds the route with.
SeedPoints ==
    LET starting_height == noise_fn(0, 0)
        starting_point == [x |-> 0, y |-> starting_height + 100, z |-> 0]
        next_point == find_next_path_node(starting_point, 0, 180, 5)
    IN (0 :> starting_point) @@ (1 :> next_point)

\* The startup system: it runs once, before any update system.
init_line_points ==
    /\ route_id_counter = 0
    /\ points' = SeedPoints
    /\ route_id_counter' = 2
    /\ points_changed' = TRUE
    /\ UNCHANGED <<noise_settings, route_nodes, line_meshes>>
    /\ UNCHANGED <<variant, player_pos>>
    /\ UNCHANGED outside_route

update_polyline_points ==
    /\ route_id_counter >= 2
    /\ IF ~points_changed
       THEN UNCHANGED <<route_nodes, line_meshes, points_changed>>
       ELSE /\ route_nodes' = <<Cardinality(DOMAIN points)>>
            /\ line_meshes' = line_meshes + 1
            /\ points_changed' = FALSE
    /\ UNCHANGED <<noise_settings, points, route_id_counter>>
    /\ UNCHANGED <<variant, player_pos>>
    /\ UNCHANGED outside_route

\* An insert that lands on the greatest key already present.
BTreeMapInsertAtLast(map, key, value) ==
    [k \in DOMAIN map |-> IF k = key - 1 THEN value ELSE map[k]]

\* BTreeMap::insert: the entry at key is added, or replaced when present.
BTreeMapInsert(map, key, value) ==
    [k \in DOMAIN map \cup {key} |-> IF k = key THEN value ELSE map[k]]

\* A next point whose scan is turned towards the viewpoint's chunk.
NextRoutePointTowardsViewpoint(pts, current_node_id) ==
    LET last_route_point == pts[current_node_id - 1]
        route_point_before_last == pts[current_node_id - 2]
        angle == AcosDegrees(last_route_point.x - route_point_before_last.x,
                             last_route_point.z - route_point_before_last.z)
        player_chunk_pos == ChunkCoordOf(player_pos, TERRAIN_CHUNK_SIZE)
    IN find_next_path_node(last_route_point, angle + 5 * player_chunk_pos[1],
                           MAX_TURN_ANGLE, 1)

\* The point build_route_path appends to the route pts as point
\* current_node_id.
NextRoutePoint(pts, current_node_id) ==
    LET last_route_point == pts[current_node_id - 1]
        route_point_before_last == pts[current_node_id - 2]
        angle == AcosDegrees(last_route_point.x - route_point_before_last.x,
                             last_route_point.z - route_point_before_last.z)
    IN find_next_path_node(last_route_point, angle, MAX_TURN_ANGLE, 1)

build_route_path ==
    /\ route_id_counter >= 2
    /\ route_id_counter < MaxRoutePoints
    /\ LET current_node_id == route_id_counter
           player_chunk_pos == ChunkCoordOf(player_pos, TERRAIN_CHUNK_SIZE)
           last_route_point == points[current_node_id - 1]
       IN IF ~is_within_render_distance(<<last_route_point.x, last_route_point.z>>,
                                        RENDER_DISTANCE_CHUNKS, player_chunk_pos,
                                        TERRAIN_CHUNK_SIZE * 100)
          THEN UNCHANGED <<points, route_id_counter, points_changed>>
          ELSE /\ points' = BTreeMapInsert(points, current_node_id,
                                            NextRoutePoint(points, current_node_id))
               /\ route_id_counter' = route_id_counter + 1
               /\ points_changed' = TRUE
    /\ UNCHANGED <<noise_settings, route_nodes, line_meshes>>
    /\ UNCHANGED <<variant, player_pos>>
    /\ UNCHANGED outside_route

RECURSIVE BuiltRoute(_)
\* The route once it has n points.
BuiltRoute(n) ==
    IF n <= 2 THEN SeedPoints
    ELSE LET pts == BuiltRoute(n - 1)
         IN pts @@ ((n - 1) :> NextRoutePoint(pts, n - 1))

----------------------------------------------------------------------------
(* Track placement and lookup: world/train_tracks.rs                       *)
(* The route is straight along x here; world positions are millimetres     *)
(* along it.                                                               *)

\* Integer division that rounds toward zero.
Quot(a, b) == IF a >= 0 THEN a \div b ELSE -((-a) \div b)

\* The id of the first segment held, where current_segment_id reads the last.
first_segment_id ==
    IF Len(segments) = 0 THEN 0 ELSE segments[1].id

\* PlacementData::current_segment_id
current_segment_id ==
    IF segments = <<>> THEN 0 ELSE segments[Len(segments)].id

\* Route::get_last_id
get_last_id == route_id_counter - 1

\* The slope of the path that generate_path_with_custom_height_function lays
\* between two route nodes: its sine and cosine in 10^-4.  The height rises
\* evenly between the nodes.
path_slope(last_node, new_node) ==
    LET rise == new_node.y - last_node.y
        run == new_node.x - last_node.x
        dist == Sqrt(rise * rise + run * run)
    IN [sin |-> Quot(rise * 10000, dist), cos |-> Quot(Abs(run) * 10000, dist)]

\* A first segment that starts one node pair further along the route.
id_to_add_from_third == IF last_used_node_id = 0 THEN 3 ELSE last_used_node_id + 1

\* The node id update_placement_data works on.
id_to_add == IF last_used_node_id = 0 THEN 2 ELSE last_used_node_id + 1

\* find_control_points, x components relative to centered_at: a control point
\* lies `smoothing` (0.2) of the opposing line previous -> next from its node,
\* towards next for the first and back from it for the second.
find_control_points(start, end, previous, next, centered_at) ==
    <<(start.x - centered_at.x) * 10 + (end.x - previous.x) * 2,
      (end.x - centered_at.x) * 10 - (next.x - start.x) * 2>>

\* update_placement_data: one TrackSegment per run, from the four route points
\* around the node pair (id_to_add - 1, id_to_add).
update_placement_data_body ==
    IF \/ get_last_id <= 2
       \/ get_last_id = last_used_node_id
       \/ (id_to_add + 1) \notin DOMAIN points
    THEN UNCHANGED <<segments, last_used_node_id>>
    ELSE LET next_node == points[id_to_add + 1]
             new_node == points[id_to_add]
             last_node == points[id_to_add - 1]
             previous_node == points[id_to_add - 2]
             bezier_controls == find_control_points(last_node, new_node, previous_node,
                                                    next_node, last_node)
         IN /\ segments' = Append(segments,
                                  [id |-> current_segment_id + 1,
                                   slope |-> path_slope(last_node, new_node),
                                   world_translation |-> last_node.x * 10,
                                   bezier_control1 |-> bezier_controls[1],
                                   bezier_control2 |-> bezier_controls[2],
                                   bezier_end |-> (new_node.x - last_node.x) * 10])
            /\ last_used_node_id' = id_to_add

\* update_track_entity: the table is rebuilt from the placement data.
update_track_entity_body ==
    track_segments' = [id \in {segments[i].id : i \in 1..Len(segments)} |->
                          segments[CHOOSE i \in 1..Len(segments) : segments[i].id = id]]

\* An early return that is also taken while one segment is still unplaced.
nothing_to_place_waits_for_next == last_placed_segment_id + 1 >= current_segment_id

\* place_tracks' second early return, taken when every segment is placed.
nothing_to_place == last_placed_segment_id + 1 > current_segment_id

\* The newest segment's id.
id_to_place_latest == current_segment_id

\* The id place_tracks extrudes next.
id_to_place == last_placed_segment_id + 1

\* place_tracks: one segment per run is extruded into a mesh and spawned.  The
\* unwrap() of the search for the segment fails when no segment has the id.
place_tracks_body ==
    IF ~track_shape \/ ~track_material
    THEN UNCHANGED <<last_placed_segment_id, track_meshes, train_panicked>>
    ELSE IF nothing_to_place
    THEN UNCHANGED <<last_placed_segment_id, track_meshes, train_panicked>>
    ELSE IF \A i \in 1..Len(segments) : segments[i].id # id_to_place
    THEN train_panicked' = TRUE /\ UNCHANGED <<last_placed_segment_id, track_meshes>>
    ELSE /\ track_meshes' = Append(track_meshes, id_to_place)
         /\ last_placed_segment_id' = id_to_place
         /\ UNCHANGED train_panicked

\* Absent and present results; a lookup can also abort the program.
None == [abort |-> FALSE, some |-> FALSE, value |-> 0]
Some(v) == [abort |-> FALSE, some |-> TRUE, value |-> v]
Aborted == [abort |-> TRUE, some |-> FALSE, value |-> 0]

\* `t.floor() as u32` for t >= 0.
Floor(t) == t \div 1000

\* Track::get_segment_at_t
get_segment_at_t(t) ==
    IF ~(t >= 0) THEN Aborted
    ELSE LET lower_bound == Floor(t)
         IN IF lower_bound \in DOMAIN track_segments
            THEN Some(track_segments[lower_bound])
            ELSE None

\* TrackSegment::get_interpolated_position_at_t: the point at the local
\* parameter t (in 1/1000) of the segment's path.
segment_position_at_t(segment, t) == Quot(t * segment.bezier_end, 1000)

\* TrackSegment::get_slope_angle_at_t
segment_slope_angle(segment) == segment.slope

\* Track::get_interpolated_position_at_t
Track_get_interpolated_position_at_t(t) ==
    LET segment == get_segment_at_t(t)
    IN IF segment.abort THEN Aborted
       ELSE IF segment.some
            THEN Some(segment_position_at_t(segment.value, t - Floor(t) * 1000)
                          + segment.value.world_translation)
            ELSE None

\* Track::get_slope_angle_at_t
Track_get_slope_angle_at_t(t) ==
    LET segment == get_segment_at_t(t)
    IN IF segment.abort THEN Aborted
       ELSE IF segment.some THEN Some(segment_slope_angle(segment.value)) ELSE None

----------------------------------------------------------------------------
(* Rolling stock: rolling_stock/{mod,bogie_systems,wagon_systems}.rs       *)

\* Seconds per fixed tick.  The constant lives in the crate root; the step
\* is long here so that a few ticks carry a bogie across a segment.
PHYSICS_TIMESTEP == 2
T_COEFFICIENT == 100
\* m/s^2, in tenths
GRAV_ACCELERATION == -98
\* in thousandths
KINETIC_FRICTION_COEFFICIENT == 1
STATIC_FRICTION_COEFFICIENT == 10

\* spawn_wagon: kg, N, mm and 1/1000 of a segment
WAGON_MASS == 30000
BOGIE_MASS == 4700
INITIAL_TRACTIVE_FORCE == 10000
distance_between_bogies == 12000
INITIAL_POSITION_ON_TRACK == 2000

Bogies == {"leading", "trailing"}

\* The values the user drags the tractive and the braking force sliders to.
SliderInputs == {<<-300000, 0>>, <<0, 0>>, <<10000, 300000>>}

\* utils::get_carried_mass: every bogie is attached to the wagon.
get_carried_mass == WAGON_MASS \div 2 + BOGIE_MASS

\* mass * GRAV_ACCELERATION, N
Weight == Quot(get_carried_mass * GRAV_ACCELERATION, 10)

\* force / mass * PHYSICS_TIMESTEP, mm/s
VelocityChange(force) == Quot(force * PHYSICS_TIMESTEP * 1000, get_carried_mass)

\* f32::signum: 1.0 for +0.0
Signum(v) == IF v >= 0 THEN 1 ELSE -1

\* The stiction gate of apply_bogie_forces.
Gated(b, v) ==
    v = 0 /\ Abs(vertical_force[b] + horizontal_force[b]) <= static_force[b]

\* The velocity apply_bogie_forces leaves a bogie with.
ForcedVelocity(b) ==
    IF ~current_slope_angle[b].some THEN velocity[b]
    ELSE LET snapped == IF Abs(velocity[b]) <= 1 THEN 0 ELSE velocity[b]
         IN IF Gated(b, snapped) THEN snapped
            ELSE LET braked == snapped + (-1 * Signum(snapped)) * VelocityChange(kinetic_force[b])
                 IN braked + VelocityChange(vertical_force[b] + horizontal_force[b])

\* Where a bogie is in the world: on the track at its position_on_track when
\* the track has data there, else where its Transform was left.
BogieWorldPosition(b) ==
    LET point == Track_get_interpolated_position_at_t(position_on_track[b])
    IN IF point.some THEN point.value ELSE translation[b]

\* How far the distance between the two bogies is from the rod's length.
DistanceError ==
    Abs(Abs(BogieWorldPosition("leading") - BogieWorldPosition("trailing"))
        - distance_between_bogies)

\* setup_track_data: AssetsLoaded is entered only when every handle of
\* ModelAssets has loaded, so the cross-section is found and the shape is set.
setup_track_data == TRUE

\* setup_track_material
setup_track_material == TRUE

\* The systems run on entering AssetsLoaded: spawn_wagon, spawn_track_entity,
\* setup_track_data and setup_track_material, over PlacementData::default.
\* spawn_wagon attaches both bogies it spawns to the wagon.
InitWagon ==
    /\ attached_bogies = Bogies
    /\ segments = <<>>
    /\ last_used_node_id = 0
    /\ track_segments = <<>>
    /\ position_on_track = [b \in Bogies |-> INITIAL_POSITION_ON_TRACK]
    /\ velocity = [b \in Bogies |-> 0]
    /\ horizontal_force = [b \in Bogies |-> 0]
    /\ vertical_force = [b \in Bogies |-> 0]
    /\ kinetic_force = [b \in Bogies |-> 0]
    /\ static_force = [b \in Bogies |-> 0]
    /\ current_slope_angle = [b \in Bogies |-> None]
    /\ translation = [b \in Bogies |-> 0]
    /\ tractive_force = INITIAL_TRACTIVE_FORCE
    /\ braking_force = 0
    /\ wagon_velocity = 0
    /\ wagon_translation = 0
    /\ schedule = "FixedUpdate"
    /\ fixed_pc = 0
    /\ fixed_steps = 0
    /\ ran = {}
    /\ frames = 0
    /\ ui_changes = 0
    /\ train_panicked = FALSE
    /\ last_placed_segment_id = 0
    /\ track_shape = setup_track_data
    /\ track_material = setup_track_material
    /\ track_meshes = <<>>
    /\ stationary_gated = [b \in Bogies |-> FALSE]
    /\ tick_start_error = 0

\* ---- FixedUpdate: (apply_bogie_forces, apply_bogie_velocities,
\* ---- sync_bogie_velocities, constrain_attached_bogies).chain()

FixedSystem(n) ==
    /\ ~train_panicked
    /\ schedule = "FixedUpdate"
    /\ fixed_pc = n

apply_bogie_forces ==
    /\ FixedSystem(0)
    /\ fixed_steps < MaxFixedSteps
    /\ velocity' = [b \in Bogies |-> ForcedVelocity(b)]
    /\ stationary_gated' = [b \in Bogies |-> Gated(b, velocity[b])]
    /\ tick_start_error' = DistanceError
    /\ fixed_pc' = 1
    /\ UNCHANGED <<position_on_track, horizontal_force, vertical_force, kinetic_force,
                   static_force, current_slope_angle, translation>>
    /\ UNCHANGED <<placement_vars, wagon_vars, schedule, fixed_steps, ran, frames,
                   ui_changes, train_panicked>>
    /\ UNCHANGED outside_train

apply_bogie_velocities ==
    /\ FixedSystem(1)
    /\ position_on_track' =
           [b \in Bogies |-> position_on_track[b]
                                 + Quot(velocity[b] * PHYSICS_TIMESTEP, T_COEFFICIENT)]
    /\ fixed_pc' = 2
    /\ UNCHANGED <<velocity, horizontal_force, vertical_force, kinetic_force,
                   static_force, current_slope_angle, translation>>
    /\ UNCHANGED <<placement_vars, wagon_vars, schedule, fixed_steps, ran, frames,
                   ui_changes, train_panicked, stationary_gated, tick_start_error>>
    /\ UNCHANGED outside_train

\* The third system of the chain leaving every velocity as it found it.
sync_bogie_velocities_skipped ==
    /\ FixedSystem(2)
    /\ fixed_pc' = 3
    /\ UNCHANGED <<bogie_vars, placement_vars, wagon_vars, schedule, fixed_steps, ran,
                   frames, ui_changes, train_panicked, stationary_gated,
                   tick_start_error>>
    /\ UNCHANGED outside_train

sync_bogie_velocities ==
    /\ FixedSystem(2)
    /\ LET total_velocity == velocity["leading"] + velocity["trailing"]
           avg_bogie_velocity == Quot(total_velocity, 2)
       IN velocity' = [b \in Bogies |-> avg_bogie_velocity]
    /\ fixed_pc' = 3
    /\ UNCHANGED <<position_on_track, horizontal_force, vertical_force, kinetic_force,
                   static_force, current_slope_angle, translation>>
    /\ UNCHANGED <<placement_vars, wagon_vars, schedule, fixed_steps, ran, frames,
                   ui_changes, train_panicked, stationary_gated, tick_start_error>>
    /\ UNCHANGED outside_train

\* The Track entity exists from the frame the wagon is spawned in, so the
\* early return on an empty track query is never taken.
constrain_attached_bogies ==
    /\ FixedSystem(3)
    /\ LET current_distance == Abs(translation["leading"] - translation["trailing"])
           correction == Quot(Abs(current_distance - distance_between_bogies), 1000)
       IN position_on_track' =
              [position_on_track EXCEPT !["trailing"] =
                  IF current_distance < distance_between_bogies
                  THEN @ - correction ELSE @ + correction]
    /\ fixed_pc' = 0
    /\ fixed_steps' = fixed_steps + 1
    /\ UNCHANGED <<velocity, horizontal_force, vertical_force, kinetic_force,
                   static_force, current_slope_angle, translation>>
    /\ UNCHANGED <<placement_vars, wagon_vars, schedule, ran, frames,
                   ui_changes, train_panicked, stationary_gated, tick_start_error>>
    /\ UNCHANGED outside_train

\* RunFixedUpdateLoop has run its ticks for this frame; Update follows.
run_update_schedule ==
    /\ FixedSystem(0)
    /\ schedule' = "Update"
    /\ UNCHANGED <<placement_vars, bogie_vars, wagon_vars, fixed_pc, fixed_steps, ran,
                   frames, ui_changes, train_panicked, stationary_gated,
                   tick_start_error>>
    /\ UNCHANGED outside_train

\* ---- Update

UpdateSystems ==
    {"update_placement_data", "update_track_entity",
     "update_bogie_current_slope_angle", "set_bogie_static_kinetic_forces",
     "set_bogie_vertical_forces", "set_bogie_horizontal_forces",
     "update_bogie_transforms", "sync_wagons_with_bogies", "tracked_wagon_status_ui"}

\* The systems of WagonPhysicsSet::SetForces.
SetForces ==
    {"update_bogie_current_slope_angle", "set_bogie_static_kinetic_forces",
     "set_bogie_vertical_forces", "set_bogie_horizontal_forces"}

\* The `.after(...)` and `.chain()` edges between systems of Update.
RunsAfter(system) ==
    CASE system \in SetForces \ {"update_bogie_current_slope_angle"} ->
             {"update_bogie_current_slope_angle"}
      [] system = "sync_wagons_with_bogies" -> {"update_bogie_transforms"}
      [] OTHER -> {}

\* A system of Update runs once per frame, after the systems it is ordered
\* behind.
UpdateSystem(system) ==
    /\ ~train_panicked
    /\ schedule = "Update"
    /\ system \notin ran
    /\ RunsAfter(system) \subseteq ran
    /\ ran' = ran \cup {system}
    /\ UNCHANGED <<schedule, fixed_pc, fixed_steps, frames>>
    /\ UNCHANGED <<stationary_gated, tick_start_error>>
    /\ UNCHANGED outside_train

update_placement_data ==
    /\ UpdateSystem("update_placement_data")
    /\ update_placement_data_body
    /\ UNCHANGED <<track_segments, placed_vars, bogie_vars, wagon_vars, ui_changes,
                   train_panicked>>

update_track_entity ==
    /\ UpdateSystem("update_track_entity")
    /\ update_track_entity_body
    /\ UNCHANGED <<segments, last_used_node_id, placed_vars, bogie_vars, wagon_vars,
                   ui_changes, train_panicked>>

update_bogie_current_slope_angle ==
    /\ UpdateSystem("update_bogie_current_slope_angle")
    /\ IF \E b \in Bogies : Track_get_slope_angle_at_t(position_on_track[b]).abort
       THEN train_panicked' = TRUE /\ UNCHANGED current_slope_angle
       ELSE /\ current_slope_angle' =
                   [b \in Bogies |-> Track_get_slope_angle_at_t(position_on_track[b])]
            /\ UNCHANGED train_panicked
    /\ UNCHANGED <<position_on_track, velocity, horizontal_force, vertical_force,
                   kinetic_force, static_force, translation>>
    /\ UNCHANGED <<placement_vars, wagon_vars, ui_changes>>

set_bogie_static_kinetic_forces ==
    /\ UpdateSystem("set_bogie_static_kinetic_forces")
    /\ LET wagon_braking_force == braking_force
           static_friction(slope_cos) ==
               Quot(STATIC_FRICTION_COEFFICIENT * Quot(Weight * slope_cos, 10000), 1000)
           kinetic_friction(slope_cos) ==
               Quot(KINETIC_FRICTION_COEFFICIENT * Quot(Weight * slope_cos, 10000), 1000)
       IN /\ static_force' =
                 [b \in Bogies |->
                     IF ~current_slope_angle[b].some THEN static_force[b]
                     ELSE Quot(wagon_braking_force, 2)
                              + Abs(static_friction(current_slope_angle[b].value.cos))]
          /\ kinetic_force' =
                 [b \in Bogies |->
                     IF ~current_slope_angle[b].some THEN kinetic_force[b]
                     ELSE Quot(wagon_braking_force, 2)
                              + Abs(kinetic_friction(current_slope_angle[b].value.cos))]
    /\ UNCHANGED <<position_on_track, velocity, horizontal_force, vertical_force,
                   current_slope_angle, translation>>
    /\ UNCHANGED <<placement_vars, wagon_vars, ui_changes, train_panicked>>

set_bogie_horizontal_forces ==
    /\ UpdateSystem("set_bogie_horizontal_forces")
    /\ horizontal_force' = [b \in Bogies |-> Quot(tractive_force, 2)]
    /\ UNCHANGED <<position_on_track, velocity, vertical_force, kinetic_force,
                   static_force, current_slope_angle, translation>>
    /\ UNCHANGED <<placement_vars, wagon_vars, ui_changes, train_panicked>>

set_bogie_vertical_forces ==
    /\ UpdateSystem("set_bogie_vertical_forces")
    /\ vertical_force' =
           [b \in Bogies |->
               IF ~current_slope_angle[b].some THEN vertical_force[b]
               ELSE Quot(Weight * current_slope_angle[b].value.sin, 10000)]
    /\ UNCHANGED <<position_on_track, velocity, horizontal_force, kinetic_force,
                   static_force, current_slope_angle, translation>>
    /\ UNCHANGED <<placement_vars, wagon_vars, ui_changes, train_panicked>>

\* The loop of update_bogie_transforms over the bogies in query order: it
\* returns at the first bogie without a slope angle.
RECURSIVE TransformsFrom(_, _, _)
TransformsFrom(order, i, transforms) ==
    IF i > Len(order) THEN Some(transforms)
    ELSE LET b == order[i]
             point_option == Track_get_interpolated_position_at_t(position_on_track[b])
         IN IF point_option.abort THEN Aborted
            ELSE IF ~current_slope_angle[b].some THEN Some(transforms)
            ELSE IF point_option.some
                 THEN TransformsFrom(order, i + 1,
                                     [transforms EXCEPT ![b] = point_option.value])
                 ELSE TransformsFrom(order, i + 1, transforms)

update_bogie_transforms ==
    /\ UpdateSystem("update_bogie_transforms")
    /\ \E order \in {<<"leading", "trailing">>, <<"trailing", "leading">>} :
          LET result == TransformsFrom(order, 1, translation)
          IN IF result.abort
             THEN train_panicked' = TRUE /\ UNCHANGED translation
             ELSE translation' = result.value /\ UNCHANGED train_panicked
    /\ UNCHANGED <<position_on_track, velocity, horizontal_force, vertical_force,
                   kinetic_force, static_force, current_slope_angle>>
    /\ UNCHANGED <<placement_vars, wagon_vars, ui_changes>>

sync_wagons_with_bogies ==
    /\ UpdateSystem("sync_wagons_with_bogies")
    /\ LET total_bogie_velocity == velocity["leading"] + velocity["trailing"]
           leading_transform == translation["leading"]
           trailing_transform == translation["trailing"]
       IN /\ wagon_velocity' = Quot(total_bogie_velocity, 2)
          /\ wagon_translation' =
                 trailing_transform + Quot(leading_transform - trailing_transform, 2)
    /\ UNCHANGED <<tractive_force, braking_force>>
    /\ UNCHANGED <<placement_vars, bogie_vars, ui_changes, train_panicked>>

\* A tracked wagon window that also brings the wagon to a halt.
tracked_wagon_status_ui_halts ==
    /\ UpdateSystem("tracked_wagon_status_ui")
    /\ UNCHANGED <<tractive_force, braking_force, ui_changes>>
    /\ wagon_velocity' = 0
    /\ UNCHANGED wagon_translation
    /\ UNCHANGED <<placement_vars, bogie_vars, train_panicked>>

\* The two sliders of the tracked wagon window: left alone, or dragged.
tracked_wagon_status_ui ==
    /\ UpdateSystem("tracked_wagon_status_ui")
    /\ \/ UNCHANGED <<tractive_force, braking_force, ui_changes>>
       \/ /\ ui_changes < MaxUiChanges
          /\ \E input \in SliderInputs :
                /\ <<tractive_force, braking_force>> # input
                /\ tractive_force' = input[1]
                /\ braking_force' = input[2]
          /\ ui_changes' = ui_changes + 1
    /\ UNCHANGED <<wagon_velocity, wagon_translation>>
    /\ UNCHANGED <<placement_vars, bogie_vars, train_panicked>>

\* Every system of Update has run; the next frame starts with the fixed ticks.
next_frame ==
    /\ ~train_panicked
    /\ schedule = "Update"
    /\ ran = UpdateSystems
    /\ frames < MaxFrames
    /\ schedule' = "FixedUpdate"
    /\ fixed_steps' = 0
    /\ ran' = {}
    /\ frames' = frames + 1
    /\ UNCHANGED <<placement_vars, bogie_vars, wagon_vars, fixed_pc, ui_changes,
                   train_panicked, stationary_gated, tick_start_error>>
    /\ UNCHANGED outside_train

----------------------------------------------------------------------------
(* Specifications: the chunk streamer                                           *)

FinishedSets == {d \in SUBSET tasks : Cardinality(d) <= MaxFinishedPerPoll}

PollFar == \E done \in FinishedSets : spawn_generated_chunks_far(done)

PollLegacy == \E done \in FinishedSets : spawn_generated_chunks_legacy(done)

NextTerrain ==
    \/ MovePlayer
    \/ generate_far_terrain
    \/ generate_near_terrain
    \/ PollFar
    \/ remove_unused_terrain_far
    \/ generate_terrain
    \/ PollLegacy
    \/ remove_unused_terrain_legacy
    \/ ui_settings_changed

\* The streamer's systems read the noise settings only inside the jobs they
\* dispatch; the level height field stands for all of them here.
InitStreamer ==
    InitTerrain /\ noise_settings = "level" /\ InitRouteDefault /\ InitWagon

SpecTerrain == InitStreamer /\ [][NextTerrain]_vars

\* The far-grid streamer with the viewpoint held at the origin.  Every system
\* runs every frame and the task pool finishes every job, so each of them is
\* weakly fair.
InitHeld == InitStreamer /\ variant = "far"

NextHeld ==
    \/ generate_far_terrain
    \/ generate_near_terrain
    \/ PollFar
    \/ remove_unused_terrain_far

SpecHeld ==
    /\ InitHeld
    /\ [][NextHeld]_vars
    /\ WF_vars(generate_far_terrain)
    /\ WF_vars(generate_near_terrain)
    /\ WF_vars(PollFar)
    /\ WF_vars(remove_unused_terrain_far)

\* The far-grid streamer with the viewpoint walking away from the origin, far
\* enough for the chunk at (0, 0), the one that gets a near grid, to leave the
\* load radius.
NextWalk ==
    \/ walk_away
    \/ generate_far_terrain
    \/ generate_near_terrain
    \/ PollFar
    \/ remove_unused_terrain_far

SpecWalk == InitHeld /\ [][NextWalk]_vars

----------------------------------------------------------------------------
(* Specifications: the mesh builders, one call each                        *)

InitMesh ==
    /\ mesh_args \in MeshCalls
    /\ InitChunks
    /\ variant = (IF mesh_args.fn = "noise" THEN "far" ELSE "legacy")
    /\ vertices = <<>>
    /\ indices = <<>>
    /\ mesh_built = FALSE
    /\ noise_settings = "level"
    /\ InitRouteDefault
    /\ InitWagon

\* The call of mesh_data_from_noise in a far-grid or near-grid job.
run_mesh_data_from_noise ==
    /\ mesh_args.fn = "noise"
    /\ ~mesh_built
    /\ LET mesh == mesh_data_from_noise(mesh_args.mesh_width, mesh_args.mesh_height,
                                        mesh_args.vertex_subdivision)
       IN vertices' = mesh.vertices /\ indices' = mesh.indices
    /\ mesh_built' = TRUE
    /\ UNCHANGED <<mesh_args, terrain_vars, route_vars, train_vars>>

\* The call of mesh_data_from_perlin in a job of terrain_generator.rs.
run_mesh_data_from_perlin ==
    /\ mesh_args.fn = "perlin"
    /\ ~mesh_built
    /\ LET mesh == mesh_data_from_perlin(mesh_args.mesh_width, mesh_args.mesh_height)
       IN vertices' = mesh.vertices /\ indices' = mesh.indices
    /\ mesh_built' = TRUE
    /\ UNCHANGED <<mesh_args, terrain_vars, route_vars, train_vars>>

NextMesh ==
    \/ run_mesh_data_from_noise
    \/ run_mesh_data_from_perlin

SpecMesh == InitMesh /\ [][NextMesh]_vars

----------------------------------------------------------------------------
(* Specifications: the route generator                                     *)

\* The route is generated over any of the height fields.
InitRoute ==
    /\ InitTerrain
    /\ variant = "legacy"
    /\ noise_settings \in HeightFields
    /\ InitRouteDefault
    /\ InitWagon

NextRoute ==
    \/ MovePlayer
    \/ init_line_points
    \/ update_polyline_points
    \/ build_route_path

SpecRoute == InitRoute /\ [][NextRoute]_vars

----------------------------------------------------------------------------
(* Specifications: the train on its track                                  *)

\* The wagon is spawned onto a route that already has MaxRoutePoints points,
\* on ground that rises along x.
InitTrain ==
    /\ InitTerrain
    /\ variant = "legacy"
    /\ noise_settings = "rises_along_x"
    /\ points = BuiltRoute(MaxRoutePoints)
    /\ route_id_counter = MaxRoutePoints
    /\ points_changed = FALSE
    /\ route_nodes = <<MaxRoutePoints>>
    /\ line_meshes = MaxRoutePoints - 1
    /\ InitWagon

NextTrain ==
    \/ apply_bogie_forces
    \/ apply_bogie_velocities
    \/ sync_bogie_velocities
    \/ constrain_attached_bogies
    \/ run_update_schedule
    \/ update_placement_data
    \/ update_track_entity
    \/ update_bogie_current_slope_angle
    \/ set_bogie_static_kinetic_forces
    \/ set_bogie_vertical_forces
    \/ set_bogie_horizontal_forces
    \/ update_bogie_transforms
    \/ sync_wagons_with_bogies
    \/ tracked_wagon_status_ui
    \/ next_frame

SpecTrain == InitTrain /\ [][NextTrain]_vars

----------------------------------------------------------------------------
(* Specifications: track placement behind the growing route                *)

\* What the three systems of TrackPlacementPlugin never write.
outside_placement == <<bogie_vars, wagon_vars, schedule_vars, ui_changes,
                       stationary_gated, tick_start_error>>

\* A system of TrackPlacementPlugin, run once a frame in no fixed order
\* relative to the other two and to the route's systems.
PlacementSystem ==
    /\ ~train_panicked
    /\ UNCHANGED outside_placement
    /\ UNCHANGED outside_train

run_update_placement_data ==
    /\ PlacementSystem
    /\ update_placement_data_body
    /\ UNCHANGED <<track_segments, placed_vars, train_panicked>>

run_update_track_entity ==
    /\ PlacementSystem
    /\ update_track_entity_body
    /\ UNCHANGED <<segments, last_used_node_id, placed_vars, train_panicked>>

place_tracks ==
    /\ PlacementSystem
    /\ place_tracks_body
    /\ UNCHANGED <<segments, last_used_node_id, track_segments, track_shape,
                   track_material>>

NextPlacement ==
    \/ MovePlayer
    \/ init_line_points
    \/ update_polyline_points
    \/ build_route_path
    \/ run_update_placement_data
    \/ run_update_track_entity
    \/ place_tracks

SpecPlacement == InitRoute /\ [][NextPlacement]_vars

\* place_tracks runs in every frame, so it is weakly fair; nothing is assumed
\* of how often the other systems run.
SpecPlacementFair == SpecPlacement /\ WF_vars(place_tracks)

----------------------------------------------------------------------------
(* Specifications: the per-wagon systems over an incomplete wagon           *)

\* The velocities and the Transform translations the bogies are found with.
CouplingVelocities == {-300, 0, 500}
CouplingTranslations == {0, 6000, 12000}

\* A wagon with its Track entity and any subset of its two bogies attached:
\* the bogie grouping of the per-wagon systems sees attached_bogies only.
InitCoupling ==
    /\ InitTerrain
    /\ variant = "legacy"
    /\ noise_settings = "level"
    /\ InitRouteDefault
    /\ attached_bogies \in SUBSET Bogies
    /\ velocity \in [Bogies -> CouplingVelocities]
    /\ translation \in [Bogies -> CouplingTranslations]
    /\ segments = <<>>
    /\ last_used_node_id = 0
    /\ track_segments = <<>>
    /\ position_on_track = [b \in Bogies |-> INITIAL_POSITION_ON_TRACK]
    /\ horizontal_force = [b \in Bogies |-> 0]
    /\ vertical_force = [b \in Bogies |-> 0]
    /\ kinetic_force = [b \in Bogies |-> 0]
    /\ static_force = [b \in Bogies |-> 0]
    /\ current_slope_angle = [b \in Bogies |-> None]
    /\ tractive_force = INITIAL_TRACTIVE_FORCE
    /\ braking_force = 0
    /\ wagon_velocity = 0
    /\ wagon_translation = 0
    /\ schedule = "FixedUpdate"
    /\ fixed_pc = 0
    /\ fixed_steps = 0
    /\ ran = {}
    /\ frames = 0
    /\ ui_changes = 0
    /\ train_panicked = FALSE
    /\ last_placed_segment_id = 0
    /\ track_shape = setup_track_data
    /\ track_material = setup_track_material
    /\ track_meshes = <<>>
    /\ stationary_gated = [b \in Bogies |-> FALSE]
    /\ tick_start_error = 0

\* The sum of the velocities in the wagon's entry of bogie_pairs.
total_velocity_of(bogies) ==
    (IF "leading" \in bogies THEN velocity["leading"] ELSE 0)
        + (IF "trailing" \in bogies THEN velocity["trailing"] ELSE 0)

\* A per-wagon system run on its own.
WagonSystem ==
    /\ ~train_panicked
    /\ UNCHANGED <<placement_vars, schedule, fixed_pc, ran, frames, ui_changes,
                   stationary_gated, tick_start_error>>
    /\ UNCHANGED <<horizontal_force, vertical_force, kinetic_force, static_force,
                   current_slope_angle, translation, tractive_force, braking_force>>
    /\ UNCHANGED outside_train

\* sync_bogie_velocities: a wagon without attached bogies has no entry in
\* bogie_pairs.
sync_bogie_velocities_of_wagon ==
    /\ WagonSystem
    /\ IF attached_bogies = {} THEN UNCHANGED velocity
       ELSE LET avg_bogie_velocity ==
                    Quot(total_velocity_of(attached_bogies),
                         Cardinality(attached_bogies))
            IN velocity' = [b \in Bogies |->
                               IF b \in attached_bogies THEN avg_bogie_velocity
                               ELSE velocity[b]]
    /\ UNCHANGED <<position_on_track, wagon_velocity, wagon_translation, fixed_steps,
                   train_panicked>>

\* A distance constraint that pushes both bogies of a complete wagon apart or
\* together.
constrain_both_bogies_of_wagon ==
    /\ WagonSystem
    /\ fixed_steps < MaxFixedSteps
    /\ fixed_steps' = fixed_steps + 1
    /\ IF attached_bogies # Bogies THEN UNCHANGED position_on_track
       ELSE LET current_distance ==
                    Abs(translation["leading"] - translation["trailing"])
                correction ==
                    Quot(Abs(current_distance - distance_between_bogies), 1000)
            IN position_on_track' =
                   [b \in Bogies |->
                       IF (current_distance < distance_between_bogies) = (b = "trailing")
                       THEN position_on_track[b] - correction
                       ELSE position_on_track[b] + correction]
    /\ UNCHANGED <<velocity, wagon_velocity, wagon_translation, train_panicked>>

\* constrain_attached_bogies: leading_bogie.unwrap() and
\* trailing_bogie.unwrap() are reached for every entry of bogie_pairs.
constrain_attached_bogies_of_wagon ==
    /\ WagonSystem
    /\ fixed_steps < MaxFixedSteps
    /\ fixed_steps' = fixed_steps + 1
    /\ IF attached_bogies = {} THEN UNCHANGED <<position_on_track, train_panicked>>
       ELSE IF attached_bogies # Bogies
       THEN train_panicked' = TRUE /\ UNCHANGED position_on_track
       ELSE /\ LET current_distance ==
                       Abs(translation["leading"] - translation["trailing"])
                   correction ==
                       Quot(Abs(current_distance - distance_between_bogies), 1000)
               IN position_on_track' =
                      [position_on_track EXCEPT !["trailing"] =
                          IF current_distance < distance_between_bogies
                          THEN @ - correction ELSE @ + correction]
            /\ UNCHANGED train_panicked
    /\ UNCHANGED <<velocity, wagon_velocity, wagon_translation>>

\* sync_wagons_with_bogies: the wagon's velocity is written before the check
\* for a missing bogie, the pose after it.
sync_wagons_with_bogies_of_wagon ==
    /\ WagonSystem
    /\ IF attached_bogies = {} THEN UNCHANGED <<wagon_velocity, wagon_translation>>
       ELSE /\ wagon_velocity' = Quot(total_velocity_of(attached_bogies),
                                      Cardinality(attached_bogies))
            /\ IF attached_bogies # Bogies THEN UNCHANGED wagon_translation
               ELSE wagon_translation' =
                        translation["trailing"]
                            + Quot(translation["leading"] - translation["trailing"], 2)
    /\ UNCHANGED <<position_on_track, velocity, fixed_steps, train_panicked>>

NextCoupling ==
    \/ sync_bogie_velocities_of_wagon
    \/ constrain_attached_bogies_of_wagon
    \/ sync_wagons_with_bogies_of_wagon

SpecCoupling == InitCoupling /\ [][NextCoupling]_vars

----------------------------------------------------------------------------
(* Specifications: braking on level track                                   *)

\* The speeds the wagon is braked from, mm/s, and the braking forces, N.
BrakingVelocities ==
    {-40000, -20000, -5000, -100, 100, 5000, 20000, 40000}
BrakingForces == {100000, 300000}

\* The slope angle of level track: sine 0, cosine 1.
LevelSlope == Some([sin |-> 0, cos |-> 10000])

\* The wagon rolling on level track with the tractive force slider at 0 and the
\* braking force slider held at a positive value, after the setters of Update
\* have run: no horizontal and no vertical force, friction from the weight
\* plus half the wagon's braking force.
InitBraking ==
    /\ InitTerrain
    /\ variant = "legacy"
    /\ noise_settings = "level"
    /\ InitRouteDefault
    /\ attached_bogies = Bogies
    /\ braking_force \in BrakingForces
    /\ tractive_force = 0
    /\ \E v \in BrakingVelocities :
          /\ velocity = [b \in Bogies |-> v]
          /\ wagon_velocity = v
    /\ current_slope_angle = [b \in Bogies |-> LevelSlope]
    /\ horizontal_force = [b \in Bogies |-> Quot(tractive_force, 2)]
    /\ vertical_force = [b \in Bogies |-> Quot(Weight * 0, 10000)]
    /\ static_force =
          [b \in Bogies |->
              Quot(braking_force, 2)
                  + Abs(Quot(STATIC_FRICTION_COEFFICIENT * Weight, 1000))]
    /\ kinetic_force =
          [b \in Bogies |->
              Quot(braking_force, 2)
                  + Abs(Quot(KINETIC_FRICTION_COEFFICIENT * Weight, 1000))]
    /\ position_on_track = [b \in Bogies |-> INITIAL_POSITION_ON_TRACK]
    /\ translation = [b \in Bogies |-> 0]
    /\ wagon_translation = 0
    /\ segments = <<>>
    /\ last_used_node_id = 0
    /\ track_segments = <<>>
    /\ schedule = "FixedUpdate"
    /\ fixed_pc = 0
    /\ fixed_steps = 0
    /\ ran = {}
    /\ frames = 0
    /\ ui_changes = 0
    /\ train_panicked = FALSE
    /\ last_placed_segment_id = 0
    /\ track_shape = setup_track_data
    /\ track_material = setup_track_material
    /\ track_meshes = <<>>
    /\ stationary_gated = [b \in Bogies |-> FALSE]
    /\ tick_start_error = 0

\* The fixed ticks of one frame.
NextBraking ==
    \/ apply_bogie_forces
    \/ apply_bogie_velocities
    \/ sync_bogie_velocities
    \/ constrain_attached_bogies

SpecBraking == InitBraking /\ [][NextBraking]_vars

----------------------------------------------------------------------------
(* Chunk streamer: properties                                              *)

TrackedIds ==
    IF variant = "far" THEN DOMAIN loaded_chunks ELSE DOMAIN loaded_chunks_pos

PositionOf(id) ==
    IF variant = "far" THEN loaded_chunks[id].pos ELSE loaded_chunks_pos[id]

\* A chunk is Ready when it is tracked and its mesh has been integrated.
ReadyIds ==
    IF variant = "far"
    THEN {id \in DOMAIN loaded_chunks : loaded_chunks[id].mesh_handle}
    ELSE DOMAIN loaded_chunks_pos \cap loaded_chunks_meshes

ReadyPositions == {PositionOf(id) : id \in ReadyIds}

Radius == IF variant = "far" THEN FAR_GRID_RENDER_DISTANCE ELSE RENDER_DISTANCE_CHUNKS

ChebyshevDistance(a, b) ==
    IF Abs(a[1] - b[1]) > Abs(a[2] - b[2]) THEN Abs(a[1] - b[1]) ELSE Abs(a[2] - b[2])

\* Chunk coordinates the model can ever name.
Coords ==
    LET far == MaxPlayerSteps + Radius + 2
    IN {<<x, y>> : x \in (-far)..far, y \in (-far)..far}

WithinRadius == {c \in Coords : ChebyshevDistance(c, player_chunk) <= Radius}

HalfOpenWindow ==
    {c \in Coords : /\ player_chunk[1] - Radius <= c[1] /\ c[1] < player_chunk[1] + Radius
                    /\ player_chunk[2] - Radius <= c[2] /\ c[2] < player_chunk[2] + Radius}

\* Streaming has stabilized: no job is unfinished and a further run of the
\* generation and eviction systems changes nothing.
StreamingStable ==
    /\ tasks = {}
    /\ NotLoaded(player_chunk, Radius) = <<>>
    /\ IF variant = "far"
       THEN EvictedFar = {}
       ELSE Retained = DOMAIN loaded_chunks_pos /\ EvictedLegacy = {}

\* C1, as claimed: once streaming has stabilized the Ready coordinates are
\* exactly the coordinates within Chebyshev distance R of the viewpoint's chunk.
C1_ReadyEqualsRadius == StreamingStable => ReadyPositions = WithinRadius

\* C1, amended: once streaming has stabilized the Ready coordinates contain the
\* half-open window [c - R, c + R) on both axes, lie within Chebyshev distance
\* R, and no coordinate is tracked under two ids.
C1_ReadyCoversWindow ==
    StreamingStable =>
        /\ HalfOpenWindow \subseteq ReadyPositions
        /\ ReadyPositions \subseteq WithinRadius
        /\ TrackedIds = ReadyIds
        /\ \A i, j \in TrackedIds : PositionOf(i) = PositionOf(j) => i = j

\* C1 witness: stabilized after the viewpoint moved and came back, with a
\* chunk kept at the far edge of the radius that the window does not cover.
C1_Witness ==
    /\ StreamingStable
    /\ id_counter > 4
    /\ ReadyPositions # HalfOpenWindow

\* The entities that carry a chunk of the far grid (or of the legacy grid).
GridChunks == {c \in chunks : c.type # "NearGrid"}

\* The chunk coordinate a spawned chunk entity stands at.
CoordOfEntity(c) == ChunkCoordOf(c.pos, ChunkSize)

\* C2: every chunk coordinate has at most one tracked chunk id and at most one
\* spawned chunk entity.
C2_OneLiveChunkPerCoordinate ==
    /\ \A i, j \in TrackedIds : PositionOf(i) = PositionOf(j) => i = j
    /\ \A c, d \in GridChunks : CoordOfEntity(c) = CoordOfEntity(d) => c = d

\* C3: a job integrated while its chunk id is not tracked leaves no chunk
\* entity and no mesh behind, and integration does not panic.
C3_LateJobDiscarded ==
    [][/\ \A t \in tasks \ tasks' :
              t.id \notin TrackedIds => (t \notin chunks' /\ t \notin meshes')
       /\ ~terrain_panicked']_vars

ReadyCount == Cardinality(ReadyIds)

\* C9: with the viewpoint held at the origin, eventually exactly (2R)^2 chunks
\* are Ready and the number stays there.
C9_HeldViewpointReadyCount ==
    <>[](ReadyCount = (2 * FAR_GRID_RENDER_DISTANCE) * (2 * FAR_GRID_RENDER_DISTANCE))

\* C9 witness: all (2R)^2 chunks around the origin are Ready and no job is left.
C9_Witness ==
    /\ player_chunk = <<0, 0>>
    /\ tasks = {}
    /\ ReadyCount = (2 * FAR_GRID_RENDER_DISTANCE) * (2 * FAR_GRID_RENDER_DISTANCE)
    /\ ReadyPositions = HalfOpenWindow

\* C10, as claimed: no two unfinished generation tasks carry the same chunk id.
C10_OneTaskPerId == \A t, u \in tasks : t.id = u.id => t = u

\* C10, amended: no two unfinished far-grid tasks carry the same chunk id; the
\* near-grid jobs of a far chunk all carry that chunk's id, at most
\* num_near_chunks^2 of them.
C10_OneFarTaskPerId ==
    /\ \A t, u \in tasks :
          (t.type # "NearGrid" /\ u.type # "NearGrid" /\ t.id = u.id) => t = u
    /\ \A id \in {t.id : t \in tasks} :
          Cardinality({t \in tasks : t.type = "NearGrid" /\ t.id = id})
              <= num_near_chunks * num_near_chunks

\* C10 witness: several far-grid jobs are unfinished while the near-grid jobs
\* of one far chunk are unfinished too.
C10_Witness ==
    /\ Cardinality({t \in tasks : t.type = "FarGrid"}) >= 2
    /\ \E t \in tasks : t.type = "NearGrid"

\* No chunk coordinate outside the load radius is tracked, and no chunk entity
\* of the grid stands at one.
NothingOutsideRadius ==
    /\ \A id \in TrackedIds :
          ~OutsideRenderDistance(PositionOf(id), player_chunk, Radius)
    /\ \A c \in GridChunks :
          ~OutsideRenderDistance(CoordOfEntity(c), player_chunk, Radius)

\* C11: after each run of remove_unused_terrain no chunk coordinate outside
\* the load radius is tracked, Ready or still being generated, and no spawned
\* chunk entity for such a coordinate remains.
C11_EvictionComplete ==
    [][(remove_unused_terrain_far \/ remove_unused_terrain_legacy)
           => NothingOutsideRadius']_vars

\* C28: once streaming has stabilized after a noise setting was changed, every
\* coordinate of the generation window holds exactly one chunk entity, and
\* every chunk entity belongs to an id tracked since the change.
C28_RebuiltAfterSettingsChange ==
    (variant = "legacy" /\ settings_changes > 0 /\ StreamingStable) =>
        /\ \A pos \in HalfOpenWindow :
              Cardinality({c \in GridChunks : CoordOfEntity(c) = pos}) = 1
        /\ \A c \in GridChunks : c.id \in TrackedIds

\* C31: a run of remove_unused_terrain that removes a far chunk's registry
\* entry leaves no chunk entity, far or near, and no mesh of that chunk id.
C31_EvictionFreesEverything ==
    [][remove_unused_terrain_far =>
          \A id \in DOMAIN loaded_chunks \ DOMAIN loaded_chunks' :
              /\ \A c \in chunks' : c.id # id
              /\ \A m \in meshes' : m.id # id]_vars

\* The near-grid jobs and near-grid chunk entities that carry a chunk id: what
\* a dispatch of the id's near grid leaves behind.
NearGridOf(id) == {t \in tasks \cup chunks : t.type = "NearGrid" /\ t.id = id}

\* C37: a far chunk is flagged, and its near-grid jobs are dispatched, only
\* while no near-grid job or near-grid chunk of its id exists and it has no
\* near mesh, that is, only if its near grid was never dispatched before.
C37_NearGridDispatchedOnce ==
    [][/\ generate_near_terrain =>
              \A id \in FlaggedChunks :
                  NearGridOf(id) = {} /\ loaded_chunks[id].near_mesh_handles = 0
       /\ \A id \in DOMAIN loaded_chunks \cap DOMAIN loaded_chunks' :
              (loaded_chunks'[id].flagged /\ ~loaded_chunks[id].flagged) =>
                  NearGridOf(id) = {}]_vars

\* C37 witness: every near-grid job of a far chunk has been integrated, and the
\* chunk is neither flagged nor generating.
C37_Witness ==
    \E id \in DOMAIN loaded_chunks :
        /\ loaded_chunks[id].near_mesh_handles = num_near_chunks * num_near_chunks
        /\ Cardinality(NearGridOf(id)) = num_near_chunks * num_near_chunks
        /\ ~loaded_chunks[id].flagged
        /\ ~loaded_chunks[id].generating_near_chunks

\* One poll of spawn_generated_chunks that finds the jobs `done` finished.
Polled(done) ==
    spawn_generated_chunks_far(done) \/ spawn_generated_chunks_legacy(done)

\* The far chunks and legacy chunks whose own job is among `pending`.
ChunksOf(pending) == {t.id : t \in {u \in pending : u.type # "NearGrid"}}

\* C18: a poll of spawn_generated_chunks that finds the jobs `done` finished
\* takes exactly these from the pending tasks, whatever else is pending: each
\* of them was not integrated before, is a spawned chunk with a mesh after the
\* poll and is no longer a task, so no later poll can take it again; every
\* other job is still pending after the poll and its chunk is not Ready.
C18_PollOnceNonBlocking ==
    [][\A done \in FinishedSets :
          Polled(done) =>
              /\ tasks' = tasks \ done
              /\ done \cap chunks = {}
              /\ done \cap meshes = {}
              /\ done \subseteq chunks'
              /\ done \subseteq meshes'
              /\ chunks' \ chunks = done
              /\ ChunksOf(tasks') \cap ReadyIds' = {}
              /\ ReadyIds' \ ReadyIds \subseteq ChunksOf(done)]_vars

\* A poll has integrated one chunk while other jobs are still running.
C18_Witness ==
    /\ ReadyIds # {}
    /\ \E c \in chunks : c.id \in ReadyIds
    /\ ChunksOf(tasks) # {}
    /\ ChunksOf(tasks) \subseteq TrackedIds \ ReadyIds

----------------------------------------------------------------------------
(* Route generator: properties                                             *)

\* The bearing in -180..180 of the segment that ends at route point i.
Bearing(i) ==
    LET dx == points[i].x - points[i - 1].x
        dz == points[i].z - points[i - 1].z
    IN IF dz < 0 THEN -AcosDegrees(dx, dz) ELSE AcosDegrees(dx, dz)

\* The angle between the segment that ends at point i - 1 and the segment
\* that ends at point i.
TurnAngle(i) ==
    LET d == Abs(Bearing(i) - Bearing(i - 1))
    IN IF d > 180 THEN 360 - d ELSE d

\* C4: every route point appended by build_route_path (every point after the
\* first two) turns by at most MAX_TURN_ANGLE against the previous segment.
C4_TurnAngleBounded ==
    \A i \in DOMAIN points : i >= 2 => TurnAngle(i) <= MAX_TURN_ANGLE

\* C12: in every step the key set of the route only grows, it is the ids
\* 0..n-1 without a gap (a new point takes the next unused id), and the
\* position stored under an existing id does not change.
C12_RouteAppendOnly ==
    [][/\ DOMAIN points \subseteq DOMAIN points'
       /\ Cardinality(DOMAIN points') >= Cardinality(DOMAIN points)
       /\ DOMAIN points' = 0..(Cardinality(DOMAIN points') - 1)
       /\ \A i \in DOMAIN points : points'[i] = points[i]]_vars

\* C12 witness: build_route_path has appended to the seeded route twice.
C12_Witness == Cardinality(DOMAIN points) >= 4 /\ route_id_counter = 4

\* The bearings scanned for route point i: the seed scan for point 1, the scan
\* of build_route_path around the x axis angle of the previous segment after.
ScannedFor(i) ==
    IF i = 1 THEN ScanAngles(0, 180, 5)
    ELSE ScanAngles(AcosDegrees(points[i - 1].x - points[i - 2].x,
                                points[i - 1].z - points[i - 2].z),
                    MAX_TURN_ANGLE, 1)

\* The horizontal distance between route points i - 1 and i, centimetres.
StepLength(i) ==
    LET dx == points[i].x - points[i - 1].x
        dz == points[i].z - points[i - 1].z
    IN Sqrt(dx * dx + dz * dz)

\* C13: every route point after point 0 is one of the candidates scanned from
\* its predecessor, and lies NODE_LENGTH from it horizontally (to the
\* centimetre the coordinates are kept in).
C13_PointIsScannedCandidate ==
    \A i \in DOMAIN points : i >= 1 =>
        /\ \E k \in DOMAIN ScannedFor(i) :
               points[i] = Candidate(points[i - 1], ScannedFor(i)[k]).point
        /\ Abs(StepLength(i) - NODE_LENGTH) <= 1

\* C13 witness: a route of the seed and three appended points.
C13_Witness == Cardinality(DOMAIN points) >= 5 /\ points[4] # Vec3ZERO

\* The index of the first bearing of the scan for point i whose slope is
\* minimal over the whole scan.
FirstMinimal(i) ==
    LET angles == ScannedFor(i)
        slope(k) == Candidate(points[i - 1], angles[k]).slope
        minimal == {k \in DOMAIN angles : \A j \in DOMAIN angles : slope(k) <= slope(j)}
    IN CHOOSE k \in minimal : \A j \in minimal : k <= j

\* C14: every route point after point 0 is the candidate of minimal slope over
\* all scanned bearings, and among several of minimal slope the one scanned
\* first.
C14_FirstMinimalSlope ==
    \A i \in DOMAIN points : i >= 1 =>
        points[i] = Candidate(points[i - 1], ScannedFor(i)[FirstMinimal(i)]).point

\* C14 witness: a point was appended where several scanned candidates tie for
\* the minimal slope and lie at different places.
C14_Witness ==
    \E i \in DOMAIN points :
        /\ i >= 2
        /\ \E k \in DOMAIN ScannedFor(i) :
               /\ k # FirstMinimal(i)
               /\ Candidate(points[i - 1], ScannedFor(i)[k]).slope
                      = Candidate(points[i - 1], ScannedFor(i)[FirstMinimal(i)]).slope
               /\ Candidate(points[i - 1], ScannedFor(i)[k]).point # points[i]

\* The slope of the ground between route point i - 1 and the candidate at the
\* k-th bearing scanned for point i.
GroundSlope(i, k) ==
    LET candidate == Candidate(points[i - 1], ScannedFor(i)[k]).point
    IN calc_absolute_slope(NODE_LENGTH,
                           noise_fn(points[i - 1].x, points[i - 1].z),
                           noise_fn(candidate.x, candidate.z))

\* C23: for every route point after point 0, the slope find_next_path_node
\* compared for each scanned candidate is the slope of the ground between the
\* point scanned from and the candidate.
C23_SlopeAgainstGround ==
    \A i \in DOMAIN points : i >= 1 =>
        \A k \in DOMAIN ScannedFor(i) :
            Candidate(points[i - 1], ScannedFor(i)[k]).slope = GroundSlope(i, k)

\* The last route point is no further than RENDER_DISTANCE_CHUNKS chunk lengths
\* from the centre of the viewpoint's chunk, on x and on z.
LastPointInLoadBox ==
    LET last == points[route_id_counter - 1]
        centre == ChunkCoordOf(player_pos, TERRAIN_CHUNK_SIZE)
        reach == RENDER_DISTANCE_CHUNKS * TERRAIN_CHUNK_SIZE * 100
    IN /\ Abs(last.x - centre[1] * TERRAIN_CHUNK_SIZE * 100) <= reach
       /\ Abs(last.z - centre[2] * TERRAIN_CHUNK_SIZE * 100) <= reach

\* C29: a run of build_route_path with the last route point inside the load
\* box appends exactly one point, under the next id, and raises the changed
\* flag; a run with the last point outside leaves the points, the id counter
\* and the flag as they were.
C29_ExtensionTrigger ==
    [][build_route_path =>
          IF LastPointInLoadBox
          THEN /\ DOMAIN points' = DOMAIN points \cup {route_id_counter}
               /\ route_id_counter \notin DOMAIN points
               /\ route_id_counter' = route_id_counter + 1
               /\ points_changed'
          ELSE /\ points' = points
               /\ route_id_counter' = route_id_counter
               /\ points_changed' = points_changed]_vars

\* C29 witness: the route was extended beyond its seed, its last point now
\* lies outside the load box, and the line has been redrawn since, so that a
\* run of build_route_path has nothing to do.
C29_Witness ==
    /\ route_id_counter >= 4
    /\ route_id_counter < MaxRoutePoints
    /\ ~LastPointInLoadBox
    /\ ~points_changed

\* C35: whatever the viewpoint did and whenever the systems ran, the route is
\* a prefix of the one route its noise settings determine: points 0 and 1 are
\* the seed, and point i is the point that follows points i - 2 and i - 1,
\* wherever the viewpoint is now.
C35_RouteIndependentOfViewpoint ==
    route_id_counter >= 2 =>
        \A i \in DOMAIN points :
            points[i] = IF i <= 1 THEN SeedPoints[i] ELSE NextRoutePoint(points, i)

\* C35 witness: the viewpoint has left the origin's chunk and the route has
\* grown past the four points it stops at while the viewpoint stays there.
C35_Witness ==
    /\ ChunkCoordOf(player_pos, TERRAIN_CHUNK_SIZE) # <<0, 0>>
    /\ Cardinality(DOMAIN points) >= 5

\* C36: the route is either untouched, before init_line_points has run, or
\* its id counter is at least 2 and its keys are exactly 0 .. id_counter - 1,
\* so that the last point and the one before it exist.
C36_RouteKeysMatchCounter ==
    \/ route_id_counter = 0 /\ points = <<>>
    \/ /\ route_id_counter >= 2
       /\ DOMAIN points = 0..(route_id_counter - 1)
       /\ get_last_id \in DOMAIN points
       /\ (get_last_id - 1) \in DOMAIN points

\* C36 witness: build_route_path has extended the seeded route to its full
\* length.
C36_Witness ==
    /\ route_id_counter = MaxRoutePoints
    /\ get_last_id \in DOMAIN points
    /\ ~points_changed

----------------------------------------------------------------------------
(* Track lookup and rolling stock: properties                              *)

\* What a lookup must return for t: nothing when no segment is registered at
\* floor(t), else data of the segment registered at floor(t).
LookupsAnswer(t) ==
    LET slope == Track_get_slope_angle_at_t(t)
        point == Track_get_interpolated_position_at_t(t)
        index == t \div 1000
    IN /\ ~slope.abort
       /\ ~point.abort
       /\ index \notin DOMAIN track_segments => (~slope.some /\ ~point.some)
       /\ index \in DOMAIN track_segments =>
              /\ slope = Some(track_segments[index].slope)
              /\ point.some
              /\ point.value >= track_segments[index].world_translation
              /\ point.value <= track_segments[index].world_translation
                                    + track_segments[index].bezier_end

\* C5: for every position_on_track the bogie systems pass to the track
\* lookups, the lookups do not abort, return None when no segment is
\* registered at floor(t), and return data of the segment at floor(t) only.
C5_LookupsNeverAbort ==
    /\ ~train_panicked
    /\ \A b \in Bogies : LookupsAnswer(position_on_track[b])

\* C6: a bogie that had velocity 0 and a combined force within its static
\* force when a fixed tick started has velocity exactly 0 when the tick is
\* complete.
C6_StictionGateHolds ==
    fixed_pc = 0 => \A b \in Bogies : stationary_gated[b] => velocity[b] = 0

\* The distance error below which the rod counts as settled.
RodTolerance == distance_between_bogies \div 12

\* C7: a fixed tick that starts with a distance error above the tolerance ends
\* with a strictly smaller one, and no fixed tick ends with a larger error
\* than it started with.
C7_RodErrorShrinks ==
    [][(fixed_pc = 3 /\ fixed_pc' = 0) =>
          /\ tick_start_error > RodTolerance => DistanceError' < tick_start_error
          /\ DistanceError' <= tick_start_error \/ DistanceError' <= RodTolerance]_vars

\* C8: apply_bogie_forces and apply_bogie_velocities run only after the slope
\* update and the three force setters have run in the same frame; the pose
\* of bogies and wagon is derived only after the fixed chain, which ends
\* with pair synchronization and the constraint, is complete.
C8_PhaseOrdering ==
    [][/\ (fixed_pc \in {0, 1} /\ fixed_pc' = fixed_pc + 1) => SetForces \subseteq ran
       /\ (ran' \ ran) \cap {"update_bogie_transforms", "sync_wagons_with_bogies"} # {}
              => (schedule = "Update" /\ fixed_pc = 0)]_vars

\* The bogies of the wagon have one velocity.
PairInStep == velocity["leading"] = velocity["trailing"]

\* C16: the synchronization step of a fixed tick leaves both bogies of the
\* wagon with one velocity, the average (to the unit of the model) of the
\* velocities that force application left; position integration before it and
\* the constraint after it do not change a velocity, so the tick ends with
\* that common velocity.
C16_BogiePairSync ==
    [][/\ (fixed_pc = 1 /\ fixed_pc' = 2) => velocity' = velocity
       /\ (fixed_pc = 2 /\ fixed_pc' = 3) =>
              /\ PairInStep'
              /\ \A b \in Bogies :
                     Abs(2 * velocity'[b]
                         - (velocity["leading"] + velocity["trailing"])) <= 1
       /\ (fixed_pc = 3 /\ fixed_pc' = 0) => (velocity' = velocity /\ PairInStep')]_vars

\* A tick is complete in which force application held one bogie at rest and
\* moved the other.
C16_Witness ==
    /\ fixed_pc = 0
    /\ fixed_steps >= 1
    /\ \E b \in Bogies : stationary_gated[b]
    /\ PairInStep
    /\ velocity["leading"] # 0

\* No segment is registered at floor(t) for bogie b's t.
OffTheTable(b) == Floor(position_on_track[b]) \notin DOMAIN track_segments

\* C17: while no segment is registered at floor(t) for a bogie's t, the
\* position query and the slope query for t both return None, and a run of
\* update_bogie_transforms leaves the bogie's transform as it was.
C17_MissingSegmentSkipsBogie ==
    [][\A b \in Bogies :
          OffTheTable(b) =>
              /\ Track_get_interpolated_position_at_t(position_on_track[b]) = None
              /\ Track_get_slope_angle_at_t(position_on_track[b]) = None
              /\ update_bogie_transforms => translation'[b] = translation[b]]_vars

\* The systems of the fixed chain, the setters of Update, the track builder
\* and the chunk streamer, as steps.
FixedChainStep ==
    \/ apply_bogie_forces
    \/ apply_bogie_velocities
    \/ sync_bogie_velocities
    \/ constrain_attached_bogies

SetterStep ==
    \/ update_bogie_current_slope_angle
    \/ set_bogie_static_kinetic_forces
    \/ set_bogie_vertical_forces
    \/ set_bogie_horizontal_forces

TrackBuilderStep ==
    \/ update_placement_data
    \/ update_track_entity
    \/ run_update_placement_data
    \/ run_update_track_entity
    \/ place_tracks

StreamerStep ==
    \/ generate_far_terrain
    \/ generate_near_terrain
    \/ PollFar
    \/ remove_unused_terrain_far
    \/ generate_terrain
    \/ PollLegacy
    \/ remove_unused_terrain_legacy

\* The physics state of bogies and wagon, the track data and the chunk
\* tracking data.
physics_state ==
    <<position_on_track, velocity, horizontal_force, vertical_force, kinetic_force,
      static_force, tractive_force, braking_force, wagon_velocity>>

\* A step that changes the slope angle of a bogie.
slope_changed ==
    \E b \in Bogies :
        \/ current_slope_angle'[b].some # current_slope_angle[b].some
        \/ /\ current_slope_angle'[b].some
           /\ current_slope_angle[b].some
           /\ current_slope_angle'[b].value # current_slope_angle[b].value

track_data == <<segments, last_used_node_id, track_segments, last_placed_segment_id>>

chunk_tracking == <<id_counter, loaded_chunks, loaded_chunks_pos, loaded_chunks_meshes>>

HasTrackData(b) ==
    /\ current_slope_angle[b].some
    /\ Track_get_interpolated_position_at_t(position_on_track[b]).some

\* C24: a run of update_bogie_transforms moves every bogie that has a slope
\* angle and a track point to that point, whether or not the other bogie has
\* them.
C24_OnlyMissingBogieSkipped ==
    [][(update_bogie_transforms /\ ~train_panicked') =>
          \A b \in Bogies :
              HasTrackData(b) =>
                  translation'[b]
                      = Track_get_interpolated_position_at_t(position_on_track[b]).value]_vars

\* C26: a system of the fixed chain changes neither the velocity nor the
\* track parameter t of a bogie whose slope angle is unknown.
C26_NoDataNoPhysics ==
    [][FixedChainStep =>
          \A b \in Bogies :
              ~current_slope_angle[b].some =>
                  /\ velocity'[b] = velocity[b]
                  /\ position_on_track'[b] = position_on_track[b]]_vars

SnappedVelocity(b) == IF Abs(velocity[b]) <= 1 THEN 0 ELSE velocity[b]

\* What the kinetic-friction statement of apply_bogie_forces adds to velocity.
FrictionChange(b) ==
    (-1 * Signum(SnappedVelocity(b))) * VelocityChange(kinetic_force[b])

\* C27: for a bogie with a slope angle that the stiction gate does not hold,
\* the kinetic-friction change never has the sign of the bogie's velocity, and
\* from rest it never has the sign of the net applied force.
C27_FrictionOpposesMotion ==
    [][apply_bogie_forces =>
          \A b \in Bogies :
              (current_slope_angle[b].some /\ ~Gated(b, SnappedVelocity(b))) =>
                  /\ FrictionChange(b) * SnappedVelocity(b) <= 0
                  /\ SnappedVelocity(b) = 0 =>
                         FrictionChange(b)
                             * (vertical_force[b] + horizontal_force[b]) <= 0]_vars

\* The distance between the two bogies' transforms, as the constraint reads it.
current_bogie_distance == Abs(translation["leading"] - translation["trailing"])

\* C32: a run of the distance constraint leaves the leading bogie's t and
\* every bogie's velocity as they were, and leaves the trailing bogie's t as
\* it was too when the bogies are distance_between_bogies apart.
C32_ConstraintMovesTrailingOnly ==
    [][(constrain_attached_bogies \/ constrain_attached_bogies_of_wagon) =>
          /\ position_on_track'["leading"] = position_on_track["leading"]
          /\ velocity' = velocity
          /\ wagon_velocity' = wagon_velocity
          /\ current_bogie_distance = distance_between_bogies =>
                 position_on_track' = position_on_track]_vars

\* C32 witness: the constraint has run twice on a complete wagon: with the
\* bogies at the target distance both are where they were, with the bogies
\* closer the trailing one has moved back.
C32_Witness ==
    /\ attached_bogies = Bogies
    /\ ~train_panicked
    /\ fixed_steps = 2
    /\ position_on_track["leading"] = INITIAL_POSITION_ON_TRACK
    /\ \/ /\ current_bogie_distance = distance_between_bogies
          /\ position_on_track["trailing"] = INITIAL_POSITION_ON_TRACK
       \/ /\ current_bogie_distance < distance_between_bogies
          /\ position_on_track["trailing"] < INITIAL_POSITION_ON_TRACK

\* C33: every bogie's track parameter t is non-negative and no assertion of
\* the train systems has fired.
C33_TrackParameterNonNegative ==
    /\ \A b \in Bogies : position_on_track[b] >= 0
    /\ ~train_panicked

\* C34: with no horizontal and no vertical force and a positive braking force,
\* a run of apply_bogie_forces leaves a bogie at rest at rest, and takes a
\* moving bogie's velocity towards 0 without passing it.
C34_BrakingNeverReverses ==
    [][apply_bogie_forces =>
          \A b \in Bogies :
              (/\ current_slope_angle[b].some
               /\ horizontal_force[b] = 0
               /\ vertical_force[b] = 0
               /\ braking_force > 0) =>
                  /\ velocity[b] = 0 => velocity'[b] = 0
                  /\ velocity[b] > 0 => (0 <= velocity'[b] /\ velocity'[b] < velocity[b])
                  /\ velocity[b] < 0 => (velocity[b] < velocity'[b] /\ velocity'[b] <= 0)]_vars

----------------------------------------------------------------------------
(* Track placement: properties                                             *)

\* The ids of the segments PlacementData holds, in the order they are held.
SegmentIds(segs) == [i \in 1..Len(segs) |-> segs[i].id]

Consecutive(ids) == \A i \in 1..Len(ids) : ids[i] = i

\* C15: in every state the segment ids PlacementData holds are 1..n in order,
\* without gap or duplicate; every step leaves the segments alone or appends
\* exactly the segment with id n + 1; the keys of Track.segments are 1..m for
\* some m <= n, and are 1..n after a run of update_track_entity.
C15_SegmentsOneAtATimeInOrder ==
    [][/\ Consecutive(SegmentIds(segments))
       /\ Consecutive(SegmentIds(segments'))
       /\ \/ segments' = segments
          \/ /\ Len(segments') = Len(segments) + 1
             /\ SubSeq(segments', 1, Len(segments)) = segments
             /\ segments'[Len(segments')].id = Len(segments) + 1
             /\ run_update_placement_data
       /\ \E m \in 0..Len(segments') : DOMAIN track_segments' = 1..m
       /\ run_update_track_entity => DOMAIN track_segments' = 1..Len(segments')]_vars

C15_Witness ==
    /\ Len(segments) >= 3
    /\ DOMAIN track_segments = 1..3
    /\ Cardinality(DOMAIN points) = MaxRoutePoints

\* C30: no segment is held while the route has fewer than 4 points; for the
\* segment with id k the route has the points k-1, k, k+1 and k+2, its
\* world_translation is point k, its curve ends at point(k+1) - point(k) and
\* rises as the ground between them, and its two control points are set off
\* along the lines from point k-1 to point k+1 and from point k to point k+2.
C30_SegmentMatchesRoutePoints ==
    /\ Cardinality(DOMAIN points) < 4 => segments = <<>>
    /\ \A i \in 1..Len(segments) :
          LET segment == segments[i]
              k == segment.id
          IN /\ {k - 1, k, k + 1, k + 2} \subseteq DOMAIN points
             /\ segment.world_translation = points[k].x * 10
             /\ segment.bezier_end = (points[k + 1].x - points[k].x) * 10
             /\ segment.slope = path_slope(points[k], points[k + 1])
             /\ segment.bezier_control1 = (points[k + 1].x - points[k - 1].x) * 2
             /\ segment.bezier_control2
                    = segment.bezier_end - (points[k + 2].x - points[k].x) * 2

\* C30 witness: the second and the third segment are held, the route ends at
\* the point the third one needs, and the segments start at different points.
C30_Witness ==
    /\ Len(segments) = 3
    /\ Cardinality(DOMAIN points) = 6
    /\ segments[3].world_translation = points[3].x * 10
    /\ segments[3].world_translation # segments[2].world_translation

\* C19: last_placed_segment_id never exceeds the highest segment id held and
\* a step leaves it alone or raises it by 1; a step spawns no track mesh or,
\* in a run of place_tracks, the one mesh of segment last_placed_segment_id + 1;
\* the meshes spawned so far are those of segments 1..last_placed_segment_id
\* in this order, one for each.
C19_PlacedOnceInOrder ==
    [][/\ last_placed_segment_id' <= current_segment_id'
       /\ \/ /\ last_placed_segment_id' = last_placed_segment_id
             /\ track_meshes' = track_meshes
          \/ /\ last_placed_segment_id' = last_placed_segment_id + 1
             /\ track_meshes' = Append(track_meshes, last_placed_segment_id + 1)
             /\ place_tracks
       /\ Len(track_meshes') = last_placed_segment_id'
       /\ Consecutive(track_meshes')]_vars

C19_Witness ==
    /\ last_placed_segment_id = 2
    /\ track_meshes = <<1, 2>>
    /\ Len(segments) = 3

\* The ids a segment can have in the model.
SegmentIdRange == 1..MaxRoutePoints

\* C20: with the track shape and material set up, every segment that
\* update_placement_data has created is eventually spawned as a track mesh.
C20_EverySegmentPlaced ==
    \A k \in SegmentIdRange :
        (\E i \in 1..Len(segments) : segments[i].id = k)
            ~> (\E j \in 1..Len(track_meshes) : track_meshes[j] = k)

\* Three segments were created and each has its mesh.
C20_Witness ==
    /\ track_shape
    /\ track_material
    /\ SegmentIds(segments) = <<1, 2, 3>>
    /\ track_meshes = SegmentIds(segments)

----------------------------------------------------------------------------
(* Mesh builders: properties                                               *)

\* The sample grid of the call: Nx by Nz vertices.
SampleGrid ==
    IF mesh_args.fn = "noise"
    THEN [nx |-> mesh_args.mesh_width \div mesh_args.vertex_subdivision + 2,
          nz |-> mesh_args.mesh_height \div mesh_args.vertex_subdivision + 2]
    ELSE [nx |-> mesh_args.mesh_width, nz |-> mesh_args.mesh_height]

\* C22: the mesh built for a sample grid of Nx by Nz vertices, Nx and Nz at
\* least 2, has Nx * Nz vertices and (Nx - 1) * (Nz - 1) * 2 triangles: the
\* index list holds three indices for each.
C22_MeshCounts ==
    (mesh_built /\ SampleGrid.nx >= 2 /\ SampleGrid.nz >= 2) =>
        /\ Len(vertices) = SampleGrid.nx * SampleGrid.nz
        /\ Len(indices) = (SampleGrid.nx - 1) * (SampleGrid.nz - 1) * 2 * 3

C22_Witness ==
    /\ mesh_built
    /\ mesh_args.fn = "perlin"
    /\ SampleGrid.nx = 3
    /\ SampleGrid.nz = 4
    /\ Len(indices) = 36

\* The three indices of the triangle with number n, counted from 0.
Triangle(n) == <<indices[3 * n + 1], indices[3 * n + 2], indices[3 * n + 3]>>

\* C38: in the mesh built for a sample grid of at least 2 by 2 vertices every
\* index names a vertex of the mesh, the three indices of every triangle
\* differ, and every vertex is named by some triangle.
C38_IndexBufferWellFormed ==
    (mesh_built /\ SampleGrid.nx >= 2 /\ SampleGrid.nz >= 2) =>
        /\ \A k \in 1..Len(indices) : indices[k] \in 0..(Len(vertices) - 1)
        /\ \A n \in 0..(Len(indices) \div 3 - 1) :
              /\ Triangle(n)[1] # Triangle(n)[2]
              /\ Triangle(n)[2] # Triangle(n)[3]
              /\ Triangle(n)[1] # Triangle(n)[3]
        /\ \A v \in 0..(Len(vertices) - 1) : \E k \in 1..Len(indices) : indices[k] = v

\* C38 witness: a near-grid mesh of 4 by 3 samples at subdivision 2 has been
\* built, and its last vertex is named by the first triangle.
C38_Witness ==
    /\ mesh_built
    /\ mesh_args.fn = "noise"
    /\ mesh_args.vertex_subdivision = 2
    /\ SampleGrid.nx = 4
    /\ SampleGrid.nz = 3
    /\ Len(vertices) = 12
    /\ \E k \in 1..3 : indices[k] = Len(vertices) - 1

====
